---- MODULE Spec2Model ----
(***************************************************************************)
(* Pledge / receipt / ledger core of the pawn-shop backend.                *)
(*                                                                         *)
(* One action per request handler; a handler is one atomic step from the   *)
(* committed database state before the request to the committed state      *)
(* after it, every commit and rollback it performs included.               *)
(* Amounts are integers in units of 0.01 (the Float columns hold money).   *)
(* None is 0 for ids and dates, "" for strings.                            *)
(***************************************************************************)
EXTENDS Integers, Sequences, FiniteSets, TLC

\* ------------------------------------------------------------------ bounds
MaxCustomers == 1
MaxPledges   == 1
MaxReceipts  == 1

\* ------------------------------------------------------- reference data
\* Rows the handlers only read: the company, the scheme, today's year.
Companies == {1}
\* A string that is split at "-" is kept as the sequence of its "-" parts:
\* "GLD" is <<"GLD">>, "GLD-A" is <<"GLD", "A">>, and joining with "-" is \o.
Schemes == (1 :> [prefix |-> <<"GLD">>, interest_rate_per_month |-> 2])
        @@ (2 :> [prefix |-> <<"GLD", "A">>, interest_rate_per_month |-> 2])
Now == [year |-> 2025, date |-> 9]

\* abs(receipt_amount - total_calculated) > 0.01, in units of 0.01
Tolerance == 1

\* ------------------------------------------------------- string helpers
Digit(n) ==
    CASE n = 0 -> "0" [] n = 1 -> "1" [] n = 2 -> "2" [] n = 3 -> "3"
      [] n = 4 -> "4" [] n = 5 -> "5" [] n = 6 -> "6" [] n = 7 -> "7"
      [] n = 8 -> "8" [] n = 9 -> "9"

RECURSIVE str(_)
str(n) == IF n < 10 THEN Digit(n) ELSE str(n \div 10) \o Digit(n % 10)

RECURSIVE zfill(_, _)
zfill(s, w) == IF Len(s) >= w THEN s ELSE zfill("0" \o s, w)

\* int(parts[2]): the number a digit string denotes
int(s) == CHOOSE n \in 0..9999 : zfill(str(n), Len(s)) = s

\* int(parts[2]) raises ValueError on anything else
ValueError(s) == ~ \E n \in 0..9999 : zfill(str(n), Len(s)) = s

RECURSIVE SumSeq(_)
SumSeq(s) == IF s = <<>> THEN 0 ELSE Head(s) + SumSeq(Tail(s))

RECURSIVE SumAmount(_)
SumAmount(S) ==
    IF S = {} THEN 0
    ELSE LET e == CHOOSE x \in S : TRUE IN e.amount + SumAmount(S \ {e})

Abs(x) == IF x < 0 THEN -x ELSE x

Max(S) == CHOOSE x \in S : \A y \in S : y <= x

\* ------------------------------------------------------------------ state
VARIABLES
    accounts,   \* chart_of_accounts: id -> [company_id, account_code]
    customers,  \* customer_details: set of ids
    pledges,    \* pledges: id -> row (pledge_items embedded)
    receipts,   \* pledge_receipts: id -> row (receipt_items embedded)
    ledger,     \* ledger_entries: set of rows
    next_id,    \* the serial sequences of the tables
    last,       \* the HTTP status of the last response
    call,       \* one call of a function under study: arguments, result
    bank_pledges,     \* bank_pledges: id -> row
    bank_redemptions, \* bank_redemptions: id -> row
    sessions    \* requests in flight: what each has read and not yet written

vars == <<accounts, customers, pledges, receipts, ledger, next_id, last,
          call, bank_pledges, bank_redemptions, sessions>>

\* the serial sequences before the first insert
FirstIds == [pledge |-> 1, receipt |-> 1, ledger |-> 1,
             bank_pledge |-> 1, bank_redemption |-> 1]

\* no call requested
NoCall == [status |-> "none"]

Init ==
    /\ accounts = <<>>
    /\ customers = {}
    /\ pledges = <<>>
    /\ receipts = <<>>
    /\ ledger = {}
    /\ next_id = FirstIds
    /\ bank_pledges = <<>>
    /\ bank_redemptions = <<>>
    /\ last = 200
    /\ call = NoCall
    /\ sessions = <<>>

\* --------------------------------------------------------------- accounts
\* db.query(ChartOfAccounts).filter(account_code == code, company_id == c).first()
AccountByCode(accts, company_id, code) ==
    LET ids == {i \in DOMAIN accts :
                  accts[i].company_id = company_id /\ accts[i].account_code = code}
    IN IF ids = {} THEN 0 ELSE CHOOSE i \in ids : \A j \in ids : i <= j

AddAccount(accts, company_id, code) ==
    accts @@ ((Len(accts) + 1) :> [company_id |-> company_id, account_code |-> code])

DEFAULT_ACCOUNTS ==
    << "1000", "1010", "1020", "1030", "1040", "1050",
       "2000", "2010",
       "3000", "3010",
       "4000", "4010", "4020", "4030", "4040",
       "5000", "5010", "5020", "5030", "5040", "5050" >>

RECURSIVE AddAccounts(_, _, _)
AddAccounts(accts, company_id, codes) ==
    IF codes = <<>> THEN accts
    ELSE AddAccounts(AddAccount(accts, company_id, Head(codes)), company_id, Tail(codes))

\* True and the new accounts, or False when the company has any account
create_default_coa(accts, company_id) ==
    IF \E i \in DOMAIN accts : accts[i].company_id = company_id
    THEN [ok |-> FALSE, accounts |-> accts]
    ELSE [ok |-> TRUE, accounts |-> AddAccounts(accts, company_id, DEFAULT_ACCOUNTS)]

initialize_default_coa ==
    \E company_id \in Companies :
        LET r == create_default_coa(accounts, company_id) IN
        /\ accounts' = r.accounts
        /\ last' = IF r.ok THEN 200 ELSE 400
        /\ UNCHANGED <<customers, pledges, receipts, ledger, next_id, call, bank_pledges, bank_redemptions, sessions>>

customer_code(customer_id) == "1051" \o zfill(str(customer_id), 4)

\* the customer row is committed, then its receivable account for company 1
create_customer_coa_account(accts, customer_id, company_id) ==
    IF AccountByCode(accts, company_id, customer_code(customer_id)) # 0
    THEN accts
    ELSE AddAccount(accts, company_id, customer_code(customer_id))

create_customer ==
    /\ Cardinality(customers) < MaxCustomers
    /\ LET id == Cardinality(customers) + 1 IN
        /\ customers' = customers \cup {id}
        /\ accounts' = create_customer_coa_account(accounts, id, 1)
        /\ last' = 201
    /\ UNCHANGED <<pledges, receipts, ledger, next_id, call, bank_pledges, bank_redemptions, sessions>>

\* ---------------------------------------------------------------- pledges
\* request bodies of POST /pledges/ (PledgeCreate)
PledgeCreate ==
    [ company_id : Companies,
      customer_id : 1..MaxCustomers,
      scheme_id : {1},
      payment_account_id : {0, 2},
      maximum_value : {300},
      loan_amount : {100},
      interest_rate : {0},
      first_month_interest : {0},
      gross_weight : {10},
      net_weight : {9},
      pledge_items : {<<[gross_weight |-> 10, net_weight |-> 9]>>} ]

\* pledge_no.startswith(f"{prefix}-{current_year}") on "-" parts (the year
\* has four digits, so the last part of the pattern is matched whole)
startswith(parts, pattern) ==
    /\ Len(parts) >= Len(pattern)
    /\ SubSeq(parts, 1, Len(pattern)) = pattern

\* f"{prefix}-{current_year}-{str(sequence).zfill(4)}", kept as its "-" parts;
\* parts[2] of the source is parts[3] here (sequences start at 1)
generate_pledge_no(pls, scheme_id) ==
    LET prefix == Schemes[scheme_id].prefix
        current_year == str(Now.year)
        same == {i \in DOMAIN pls :
                   /\ pls[i].scheme_id = scheme_id
                   /\ startswith(pls[i].pledge_no, prefix \o <<current_year>>)}
        sequence == IF same = {} THEN 1
                    ELSE LET parts == pls[Max(same)].pledge_no
                         IN IF Len(parts) >= 3
                            THEN IF ValueError(parts[3]) THEN 1
                                 ELSE int(parts[3]) + 1
                            ELSE 1
    IN prefix \o <<current_year, zfill(str(sequence), 4)>>

Line(account_id, transaction_type, amount, description) ==
    [account_id |-> account_id, transaction_type |-> transaction_type,
     amount |-> amount, description |-> description]

\* the rows db.add() receives, with ids from the ledger_entries sequence
Entries(lines, company_id, reference_type, reference_id, first_id) ==
    { [ id |-> first_id + i - 1,
        company_id |-> company_id,
        account_id |-> lines[i].account_id,
        transaction_type |-> lines[i].transaction_type,
        amount |-> lines[i].amount,
        description |-> lines[i].description,
        reference_type |-> reference_type,
        reference_id |-> reference_id ] : i \in 1..Len(lines) }

\* the lines create_pledge_ledger_entries adds; an account that is not
\* found is skipped, and the function commits and returns True
create_pledge_ledger_entries(accts, pledge, company_id) ==
    LET pledged_items_account == AccountByCode(accts, company_id, "1040")
        customer_account ==
            AccountByCode(accts, company_id, customer_code(pledge.customer_id))
        payment_account ==
            IF pledge.payment_account_id # 0
            THEN (IF pledge.payment_account_id \in DOMAIN accts
                  THEN pledge.payment_account_id ELSE 0)
            ELSE AccountByCode(accts, company_id, "1000")
        interest_account == AccountByCode(accts, company_id, "4000")
    IN  (IF pledged_items_account # 0
         THEN <<Line(pledged_items_account, "Debit", pledge.maximum_value,
                     "Pledged items received")>> ELSE <<>>)
     \o (IF customer_account # 0
         THEN <<Line(customer_account, "Credit", pledge.loan_amount,
                     "Loan advanced against pledge")>> ELSE <<>>)
     \o (IF payment_account # 0
         THEN <<Line(payment_account, "Credit", pledge.loan_amount,
                     "Loan disbursed")>> ELSE <<>>)
     \o (IF pledge.first_month_interest > 0
         THEN (IF interest_account # 0
               THEN <<Line(interest_account, "Credit", pledge.first_month_interest,
                           "First month interest")>> ELSE <<>>)
           \o (IF payment_account # 0
               THEN <<Line(payment_account, "Debit", pledge.first_month_interest,
                           "First month interest received")>> ELSE <<>>)
         ELSE <<>>)

PledgeEntries(led, pledge_id, company_id) ==
    {e \in led : /\ e.reference_type = "Pledge"
                 /\ e.reference_id = pledge_id
                 /\ e.company_id = company_id}

\* db.delete(entry) for every entry of the pledge, then db.commit()
reverse_pledge_ledger_entries(led, pledge_id, company_id) ==
    led \ PledgeEntries(led, pledge_id, company_id)

\* A variant of the pledges table without the unique index on pledge_no.
pledge_no_exists_never(pls, pledge_no) == FALSE

\* pledge_no is unique=True: the INSERT of a number a committed pledge holds
\* raises IntegrityError (after waiting for an uncommitted holder to finish)
pledge_no_exists(pls, pledge_no) ==
    \E i \in DOMAIN pls : pls[i].pledge_no = pledge_no

\* the handler from db.add(new_pledge) on, for the pledge_no it generated
create_pledge_flush(d, pledge_no) ==
        LET id == next_id.pledge
            scheme == Schemes[d.scheme_id]
            cash_account == AccountByCode(accounts, d.company_id, "1000")
            payment_account_id ==
                IF d.payment_account_id # 0 THEN d.payment_account_id ELSE cash_account
            rate == IF d.interest_rate # 0 THEN d.interest_rate
                    ELSE scheme.interest_rate_per_month
            first_month_interest ==
                IF d.first_month_interest = 0
                THEN (d.loan_amount * rate) \div 100
                ELSE d.first_month_interest
            new_pledge ==
                [ company_id |-> d.company_id,
                  pledge_no |-> pledge_no,
                  customer_id |-> d.customer_id,
                  scheme_id |-> d.scheme_id,
                  gross_weight |-> d.gross_weight,
                  net_weight |-> d.net_weight,
                  maximum_value |-> d.maximum_value,
                  loan_amount |-> d.loan_amount,
                  interest_rate |-> rate,
                  first_month_interest |-> first_month_interest,
                  payment_account_id |-> payment_account_id,
                  status |-> "Active",
                  total_principal_received |-> 0,
                  total_interest_received |-> first_month_interest,
                  pledge_close_date |-> 0,
                  pledge_items |-> d.pledge_items ]
            lines == create_pledge_ledger_entries(accounts, new_pledge, d.company_id)
        IN
        IF d.customer_id \notin customers \/ d.scheme_id \notin DOMAIN Schemes
        THEN /\ last' = 404
             /\ UNCHANGED <<accounts, customers, pledges, receipts, ledger, next_id, call, bank_pledges, bank_redemptions>>
        ELSE IF /\ d.payment_account_id # 0
                /\ ~ ( /\ d.payment_account_id \in DOMAIN accounts
                       /\ accounts[d.payment_account_id].company_id = d.company_id )
        THEN /\ last' = 404
             /\ UNCHANGED <<accounts, customers, pledges, receipts, ledger, next_id, call, bank_pledges, bank_redemptions>>
        ELSE IF pledge_no_exists(pledges, pledge_no)
        THEN \* unique pledge_no: the flush fails, rollback, 400
             /\ last' = 400
             /\ UNCHANGED <<accounts, customers, pledges, receipts, ledger, next_id, call, bank_pledges, bank_redemptions>>
        ELSE \* the pledge is committed, then its ledger entries are
             /\ pledges' = pledges @@ (id :> new_pledge)
             /\ ledger' = ledger \cup
                   Entries(lines, d.company_id, "Pledge", id, next_id.ledger)
             /\ next_id' = [next_id EXCEPT !.pledge = id + 1,
                                           !.ledger = @ + Len(lines)]
             /\ last' = 201
             /\ UNCHANGED <<accounts, customers, receipts, call, bank_pledges, bank_redemptions>>

\* one request, nothing else in between: the number is generated from the
\* pledges committed when the row is flushed
create_pledge_request(d) ==
    /\ create_pledge_flush(d, generate_pledge_no(pledges, d.scheme_id))
    /\ UNCHANGED sessions

create_pledge ==
    /\ next_id.pledge <= MaxPledges
    /\ \E d \in PledgeCreate : create_pledge_request(d)

\* request bodies of PUT /pledges/{id} (PledgeUpdate, exclude_unset): the
\* record's domain is the set of fields the client sent
PledgeUpdate ==
    { [status |-> "Active"],
      [loan_amount |-> 150,
       pledge_items |-> <<[gross_weight |-> 20, net_weight |-> 18]>>] }

\* the keyword arguments update_pledge passes to create_pledge_ledger_entries
\* and the parameters that function declares
update_pledge_call == {"db", "pledge", "company_id", "created_by"}
create_pledge_ledger_entries_params == {"db", "pledge", "company_id", "created_by_id"}

\* Python raises TypeError for a keyword argument the callee does not declare
TypeError(kwargs, params) == ~ (kwargs \subseteq params)

\* Steps 1 and 2 of update_pledge: items replaced and weights recomputed,
\* then setattr for every remaining field
apply_pledge_update(pledge, update_data) ==
    LET with_items ==
            IF "pledge_items" \in DOMAIN update_data
            THEN [pledge EXCEPT
                    !.pledge_items = update_data.pledge_items,
                    !.gross_weight = SumSeq([i \in DOMAIN update_data.pledge_items |->
                                              update_data.pledge_items[i].gross_weight]),
                    !.net_weight = SumSeq([i \in DOMAIN update_data.pledge_items |->
                                            update_data.pledge_items[i].net_weight])]
            ELSE pledge
    IN [k \in DOMAIN pledge |->
          IF k \in DOMAIN update_data /\ k # "pledge_items"
          THEN update_data[k] ELSE with_items[k]]

update_pledge ==
    \E pledge_id \in 1..MaxPledges, update_data \in PledgeUpdate :
        IF pledge_id \notin DOMAIN pledges
        THEN /\ last' = 404
             /\ UNCHANGED <<accounts, customers, pledges, receipts, ledger, next_id, call, bank_pledges, bank_redemptions, sessions>>
        ELSE
        LET pledge == pledges[pledge_id]
            old_loan_amount == pledge.loan_amount
            new_loan_amount == IF "loan_amount" \in DOMAIN update_data
                               THEN update_data.loan_amount ELSE old_loan_amount
            loan_amount_changed == old_loan_amount # new_loan_amount
            updated == apply_pledge_update(pledge, update_data)
            reversed == reverse_pledge_ledger_entries(ledger, pledge_id, pledge.company_id)
            lines == create_pledge_ledger_entries(accounts, updated, pledge.company_id)
        IN
        IF ~ loan_amount_changed
        THEN \* db.commit()
             /\ pledges' = [pledges EXCEPT ![pledge_id] = updated]
             /\ last' = 200
             /\ UNCHANGED <<accounts, customers, receipts, ledger, next_id, call, bank_pledges, bank_redemptions, sessions>>
        ELSE IF TypeError(update_pledge_call, create_pledge_ledger_entries_params)
        THEN \* reverse_pledge_ledger_entries has committed the session (items,
             \* fields, deleted entries); the call raises, rollback, 400
             /\ pledges' = [pledges EXCEPT ![pledge_id] = updated]
             /\ ledger' = reversed
             /\ last' = 400
             /\ UNCHANGED <<accounts, customers, receipts, next_id, call, bank_pledges, bank_redemptions, sessions>>
        ELSE \* the entries are committed; the bool returned has no .get(): 400
             /\ pledges' = [pledges EXCEPT ![pledge_id] = updated]
             /\ ledger' = reversed \cup
                   Entries(lines, pledge.company_id, "Pledge", pledge_id, next_id.ledger)
             /\ next_id' = [next_id EXCEPT !.ledger = @ + Len(lines)]
             /\ last' = 400
             /\ UNCHANGED <<accounts, customers, receipts, call, bank_pledges, bank_redemptions, sessions>>

\* request bodies of POST /pledges/{id}/close (the handler the router
\* matches: the first one registered for the path)
ClosureData == {"Closed", "Redeemed", "Forfeited", "Active"}

close_pledge ==
    \E pledge_id \in 1..MaxPledges, new_status \in ClosureData :
        IF pledge_id \notin DOMAIN pledges
        THEN /\ last' = 404
             /\ UNCHANGED <<accounts, customers, pledges, receipts, ledger, next_id, call, bank_pledges, bank_redemptions, sessions>>
        ELSE IF pledges[pledge_id].status # "Active"
                \/ new_status \notin {"Closed", "Redeemed", "Forfeited"}
        THEN /\ last' = 400
             /\ UNCHANGED <<accounts, customers, pledges, receipts, ledger, next_id, call, bank_pledges, bank_redemptions, sessions>>
        ELSE /\ pledges' = [pledges EXCEPT ![pledge_id].status = new_status]
             /\ last' = 200
             /\ UNCHANGED <<accounts, customers, receipts, ledger, next_id, call, bank_pledges, bank_redemptions, sessions>>

\* receipt_items.pledge_id REFERENCES pledges(id)
PledgeReferenced(rcpts, pledge_id) ==
    \E r \in DOMAIN rcpts : \E i \in DOMAIN rcpts[r].receipt_items :
        rcpts[r].receipt_items[i].pledge_id = pledge_id

delete_pledge ==
    \E pledge_id \in 1..MaxPledges :
        IF pledge_id \notin DOMAIN pledges
        THEN /\ last' = 404
             /\ UNCHANGED <<accounts, customers, pledges, receipts, ledger, next_id, call, bank_pledges, bank_redemptions, sessions>>
        ELSE
        \* the entries are deleted and committed first
        /\ ledger' = reverse_pledge_ledger_entries(
                         ledger, pledge_id, pledges[pledge_id].company_id)
        /\ IF PledgeReferenced(receipts, pledge_id)
           THEN \* the DELETE violates the foreign key: rollback, 400
                /\ pledges' = pledges
                /\ last' = 400
           ELSE /\ pledges' = [i \in DOMAIN pledges \ {pledge_id} |-> pledges[i]]
                /\ last' = 204
        /\ UNCHANGED <<accounts, customers, receipts, next_id, call, bank_pledges, bank_redemptions, sessions>>

\* --------------------------------------------------------------- receipts
Item(pledge_id, paid_principal, paid_interest, paid_discount, paid_penalty,
     payment_type, total_amount_paid) ==
    [ pledge_id |-> pledge_id,
      paid_principal |-> paid_principal,
      paid_interest |-> paid_interest,
      paid_discount |-> paid_discount,
      paid_penalty |-> paid_penalty,
      payment_type |-> payment_type,
      total_amount_paid |-> total_amount_paid ]

\* request bodies of POST /api/receipts/ (PledgeReceiptCreate); no field of
\* an item is validated against another
Body(receipt_items, receipt_amount) ==
    [company_id |-> 1, receipt_date |-> 5,
     receipt_items |-> receipt_items, receipt_amount |-> receipt_amount]

PledgeReceiptCreate ==
    UNION { { Body(<<>>, 0),
              Body(<<Item(p, 40, 2, 0, 0, "Partial", 42)>>, 42),
              Body(<<Item(p, 40, 2, 0, 0, "Partial", 42)>>, 43),
              Body(<<Item(p, 40, 2, 0, 0, "Partial", 42)>>, 44),
              Body(<<Item(p, 0, 1, 2, 1, "Extension", 0)>>, 0),
              Body(<<Item(p, 100, 0, 0, 0, "Full Payment", 100)>>, 100),
              Body(<<Item(p, 0, 0, 0, 0, " Closed ", 0)>>, 0),
              Body(<<Item(p, 100, 0, 0, 0, "Partial", 110)>>, 110),
              Body(<<Item(p, 40, 2, 0, 0, "Partial", 42),
                     Item(p, 60, 0, 0, 0, "Partial", 60)>>, 102) }
            : p \in 1..MaxPledges }

\* item_data.payment_type.strip().lower()
strip_lower(payment_type) ==
    CASE payment_type = "Partial" -> "partial"
      [] payment_type = "Extension" -> "extension"
      [] payment_type = "Full Payment" -> "full payment"
      [] payment_type = " Closed " -> "closed"
      [] OTHER -> payment_type

\* f"RCP-{year}-{sequence:04d}" with sequence = count of the company's
\* receipts created in the year + 1
generate_receipt_no(rcpts, company_id) ==
    LET receipts_this_year ==
            Cardinality({r \in DOMAIN rcpts : rcpts[r].company_id = company_id})
        sequence == receipts_this_year + 1
    IN "RCP-" \o str(Now.year) \o "-" \o zfill(str(sequence), 4)

FullTypes == {"full payment", "redeemed", "full", "fullpayment"}
CloseTypes == {"closed", "closure", "close"}

\* lines 123-152 of create_receipt for one item
track_pledge(pledge, item_data, receipt_date) ==
    LET actual_interest_received == item_data.paid_interest - item_data.paid_discount
        payment_type_normalized == strip_lower(item_data.payment_type)
        tracked == [pledge EXCEPT
                      !.total_principal_received = @ + item_data.paid_principal,
                      !.total_interest_received = @ + actual_interest_received]
    IN IF payment_type_normalized \in FullTypes
       THEN [tracked EXCEPT !.status = "Redeemed", !.pledge_close_date = receipt_date]
       ELSE IF payment_type_normalized \in CloseTypes
       THEN [tracked EXCEPT !.status = "Closed", !.pledge_close_date = receipt_date]
       ELSE tracked

RECURSIVE track_pledges(_, _, _)
track_pledges(pls, items, receipt_date) ==
    IF items = <<>> THEN pls
    ELSE LET item_data == Head(items)
             pid == item_data.pledge_id
         IN track_pledges(
                [pls EXCEPT ![pid] = track_pledge(pls[pid], item_data, receipt_date)],
                Tail(items), receipt_date)

calculate_receipt_total(receipt_items) ==
    SumSeq([i \in DOMAIN receipt_items |-> receipt_items[i].total_amount_paid])

\* db.commit() of rows the session changed: the UPDATE of a row sets the
\* columns whose value differs from the one the session loaded, to the value
\* the session computed; the other columns keep what is committed
flush(committed, loaded, changed) ==
    [ i \in DOMAIN committed |->
        IF i \notin DOMAIN loaded THEN committed[i]
        ELSE [ f \in DOMAIN committed[i] |->
                 IF changed[i][f] # loaded[i][f] THEN changed[i][f]
                 ELSE committed[i][f] ] ]

\* the handler for the receipt number it generated and the pledges its
\* session loaded (the identity map keeps the rows of the first query)
create_receipt_flush(receipt_data, receipt_no, read_pledges) ==
        LET id == next_id.receipt
            company_id == receipt_data.company_id
            items == receipt_data.receipt_items
            receipt_date == receipt_data.receipt_date
            receipt_amount == receipt_data.receipt_amount
            total_calculated == calculate_receipt_total(items)
            receipt ==
                [ company_id |-> company_id,
                  receipt_no |-> receipt_no,
                  receipt_date |-> receipt_date,
                  receipt_amount |-> receipt_amount,
                  remarks |-> "",
                  receipt_status |-> "Draft",
                  coa_entry_status |-> "Pending",
                  receipt_items |-> items ]
        IN
        IF Len(items) = 0
        THEN /\ last' = 400
             /\ UNCHANGED <<accounts, customers, pledges, receipts, ledger, next_id, call, bank_pledges, bank_redemptions>>
        ELSE IF \E i \in DOMAIN items : items[i].pledge_id \notin DOMAIN read_pledges
        THEN /\ last' = 404
             /\ UNCHANGED <<accounts, customers, pledges, receipts, ledger, next_id, call, bank_pledges, bank_redemptions>>
        ELSE IF Abs(receipt_amount - total_calculated) > Tolerance
        THEN /\ last' = 400
             /\ UNCHANGED <<accounts, customers, pledges, receipts, ledger, next_id, call, bank_pledges, bank_redemptions>>
        ELSE IF \E r \in DOMAIN receipts : receipts[r].receipt_no = receipt_no
        THEN \* unique receipt_no: the flush fails, rollback, 500
             /\ last' = 500
             /\ UNCHANGED <<accounts, customers, pledges, receipts, ledger, next_id, call, bank_pledges, bank_redemptions>>
        ELSE IF \E i \in DOMAIN items : items[i].pledge_id \notin DOMAIN pledges
        THEN \* the UPDATE of a pledge deleted meanwhile matches no row: 500
             /\ last' = 500
             /\ UNCHANGED <<accounts, customers, pledges, receipts, ledger, next_id, call, bank_pledges, bank_redemptions>>
        ELSE /\ receipts' = receipts @@ (id :> receipt)
             /\ pledges' = flush(pledges, read_pledges,
                                track_pledges(read_pledges, items, receipt_date))
             /\ next_id' = [next_id EXCEPT !.receipt = id + 1]
             /\ last' = 200
             /\ UNCHANGED <<accounts, customers, ledger, call, bank_pledges, bank_redemptions>>

\* one request, nothing else in between
create_receipt_request(receipt_data) ==
    /\ create_receipt_flush(receipt_data,
           generate_receipt_no(receipts, receipt_data.company_id), pledges)
    /\ UNCHANGED sessions

create_receipt ==
    /\ next_id.receipt <= MaxReceipts
    /\ \E receipt_data \in PledgeReceiptCreate :
          create_receipt_request(receipt_data)

\* request bodies of PUT /api/receipts/{id} (PledgeReceiptUpdate, exclude_unset)
PledgeReceiptUpdate ==
    { [receipt_amount |-> 7], [receipt_status |-> "Posted"] }

update_receipt ==
    \E receipt_id \in 1..MaxReceipts, receipt_data \in PledgeReceiptUpdate :
        IF receipt_id \notin DOMAIN receipts
        THEN /\ last' = 404
             /\ UNCHANGED <<accounts, customers, pledges, receipts, ledger, next_id, call, bank_pledges, bank_redemptions, sessions>>
        ELSE IF receipts[receipt_id].receipt_status # "Draft"
        THEN /\ last' = 400
             /\ UNCHANGED <<accounts, customers, pledges, receipts, ledger, next_id, call, bank_pledges, bank_redemptions, sessions>>
        ELSE /\ receipts' = [receipts EXCEPT ![receipt_id] =
                   [k \in DOMAIN @ |-> IF k \in DOMAIN receipt_data
                                       THEN receipt_data[k] ELSE @[k]]]
             /\ last' = 200
             /\ UNCHANGED <<accounts, customers, pledges, ledger, next_id, call, bank_pledges, bank_redemptions, sessions>>

\* the account's id, and the accounts with the account added when missing
\* account_code has a unique index (models.py: unique=True): flushing a new
\* row whose code another company already uses raises IntegrityError
get_or_create_account(accts, company_id, account_code) ==
    LET found == AccountByCode(accts, company_id, account_code) IN
    IF found # 0
    THEN [id |-> found, accounts |-> accts, error |-> FALSE]
    ELSE IF \E i \in DOMAIN accts : accts[i].account_code = account_code
    THEN [id |-> 0, accounts |-> accts, error |-> TRUE]
    ELSE [id |-> Len(accts) + 1,
          accounts |-> AddAccount(accts, company_id, account_code),
          error |-> FALSE]

\* the accounts after the five get_or_create_account calls and the lines added
create_receipt_coa_entries(accts, receipt) ==
    LET items == receipt.receipt_items
        total_principal == SumSeq([i \in DOMAIN items |-> items[i].paid_principal])
        total_interest == SumSeq([i \in DOMAIN items |-> items[i].paid_interest])
        total_discount == SumSeq([i \in DOMAIN items |-> items[i].paid_discount])
        total_penalty == SumSeq([i \in DOMAIN items |-> items[i].paid_penalty])
        cash == get_or_create_account(accts, receipt.company_id, "1000")
        receivable == get_or_create_account(cash.accounts, receipt.company_id, "1051")
        interest == get_or_create_account(receivable.accounts, receipt.company_id, "4000")
        discount == get_or_create_account(interest.accounts, receipt.company_id, "5030")
        penalty == get_or_create_account(discount.accounts, receipt.company_id, "4050")
    IN [ ok |-> ~(cash.error \/ receivable.error \/ interest.error
                     \/ discount.error \/ penalty.error),
         accounts |-> penalty.accounts,
         lines |->
              <<Line(cash.id, "Debit", receipt.receipt_amount, "Cash received")>>
           \o (IF total_principal > 0
               THEN <<Line(receivable.id, "Credit", total_principal, "Principal payment")>>
               ELSE <<>>)
           \o (IF total_interest > 0
               THEN <<Line(interest.id, "Credit", total_interest, "Interest income")>>
               ELSE <<>>)
           \o (IF total_discount > 0
               THEN <<Line(discount.id, "Debit", total_discount, "Interest discount given")>>
               ELSE <<>>)
           \o (IF total_penalty > 0
               THEN <<Line(penalty.id, "Credit", total_penalty, "Penalty income")>>
               ELSE <<>>) ]

\* pledge.status after update_pledge_balance: the paid_principal of every
\* receipt item of the pledge, whatever its receipt's status, is summed
update_pledge_balance(pledge, rcpts, pledge_id) ==
    LET total_principal_paid ==
            SumSeq([r \in 1..MaxReceipts |->
                IF r \in DOMAIN rcpts
                THEN SumSeq([i \in DOMAIN rcpts[r].receipt_items |->
                        IF rcpts[r].receipt_items[i].pledge_id = pledge_id
                        THEN rcpts[r].receipt_items[i].paid_principal ELSE 0])
                ELSE 0])
    IN IF total_principal_paid >= pledge.loan_amount
       THEN [pledge EXCEPT !.status = "Redeemed"]
       ELSE pledge

RECURSIVE update_pledge_balances(_, _, _)
update_pledge_balances(pls, rcpts, items) ==
    IF items = <<>> THEN pls
    ELSE LET pid == Head(items).pledge_id
         IN update_pledge_balances(
                [pls EXCEPT ![pid] = update_pledge_balance(pls[pid], rcpts, pid)],
                rcpts, Tail(items))

ReceiptEntries(led, receipt_id, company_id) ==
    {e \in led : /\ e.reference_type = "Receipt"
                 /\ e.reference_id = receipt_id
                 /\ e.company_id = company_id}

post_receipt ==
    \E receipt_id \in 1..MaxReceipts :
        IF receipt_id \notin DOMAIN receipts
        THEN /\ last' = 404
             /\ UNCHANGED <<accounts, customers, pledges, receipts, ledger, next_id, call, bank_pledges, bank_redemptions, sessions>>
        ELSE IF receipts[receipt_id].receipt_status # "Draft"
        THEN /\ last' = 400
             /\ UNCHANGED <<accounts, customers, pledges, receipts, ledger, next_id, call, bank_pledges, bank_redemptions, sessions>>
        ELSE
        LET receipt == receipts[receipt_id]
            coa == create_receipt_coa_entries(accounts, receipt)
        IN
        IF ~coa.ok
        THEN \* create_receipt_coa_entries returns False: rollback, 500
             /\ last' = 500
             /\ UNCHANGED <<accounts, customers, pledges, receipts, ledger, next_id, call, bank_pledges, bank_redemptions, sessions>>
        ELSE
        IF \E i \in DOMAIN receipt.receipt_items :
               receipt.receipt_items[i].pledge_id \notin DOMAIN pledges
        THEN \* update_pledge_balance returns False: rollback, 500
             /\ last' = 500
             /\ UNCHANGED <<accounts, customers, pledges, receipts, ledger, next_id, call, bank_pledges, bank_redemptions, sessions>>
        ELSE /\ accounts' = coa.accounts
             /\ ledger' = ledger \cup
                   Entries(coa.lines, receipt.company_id, "Receipt", receipt_id,
                           next_id.ledger)
             /\ next_id' = [next_id EXCEPT !.ledger = @ + Len(coa.lines)]
             /\ receipts' = [receipts EXCEPT ![receipt_id].coa_entry_status = "Posted",
                                             ![receipt_id].receipt_status = "Posted"]
             /\ pledges' = update_pledge_balances(pledges, receipts, receipt.receipt_items)
             /\ last' = 200
             /\ UNCHANGED <<customers, call, bank_pledges, bank_redemptions, sessions>>

\* the entries of S in id order
RECURSIVE ById(_)
ById(S) ==
    IF S = {} THEN <<>>
    ELSE LET e == CHOOSE x \in S : \A y \in S : x.id <= y.id
         IN <<e>> \o ById(S \ {e})

\* one reversing line per entry of the receipt
reverse_receipt_ledger_entries(led, receipt_id, company_id) ==
    LET entries == ById(ReceiptEntries(led, receipt_id, company_id))
    IN [i \in DOMAIN entries |->
          Line(entries[i].account_id,
               IF entries[i].transaction_type = "Debit" THEN "Credit" ELSE "Debit",
               entries[i].amount,
               "Reversal of " \o entries[i].description)]

void_receipt ==
    \E receipt_id \in 1..MaxReceipts :
        IF receipt_id \notin DOMAIN receipts
        THEN /\ last' = 404
             /\ UNCHANGED <<accounts, customers, pledges, receipts, ledger, next_id, call, bank_pledges, bank_redemptions, sessions>>
        ELSE IF receipts[receipt_id].receipt_status \notin {"Posted", "Adjusted"}
        THEN /\ last' = 400
             /\ UNCHANGED <<accounts, customers, pledges, receipts, ledger, next_id, call, bank_pledges, bank_redemptions, sessions>>
        ELSE
        LET receipt == receipts[receipt_id]
            lines == reverse_receipt_ledger_entries(ledger, receipt_id, receipt.company_id)
            present == SelectSeq(receipt.receipt_items,
                                 LAMBDA it : it.pledge_id \in DOMAIN pledges)
        IN
        /\ ledger' = ledger \cup
              Entries(lines, receipt.company_id, "Receipt", receipt_id, next_id.ledger)
        /\ next_id' = [next_id EXCEPT !.ledger = @ + Len(lines)]
        /\ receipts' = [receipts EXCEPT ![receipt_id].receipt_status = "Void",
                                        ![receipt_id].coa_entry_status = "Pending"]
        /\ pledges' = update_pledge_balances(pledges, receipts, present)
        /\ last' = 200
        /\ UNCHANGED <<accounts, customers, call, bank_pledges, bank_redemptions, sessions>>

delete_receipt_request(receipt_id) ==
        IF receipt_id \notin DOMAIN receipts
        THEN /\ last' = 404
             /\ UNCHANGED <<accounts, customers, pledges, receipts, ledger, next_id, call, bank_pledges, bank_redemptions, sessions>>
        ELSE IF receipts[receipt_id].receipt_status # "Draft"
        THEN /\ last' = 400
             /\ UNCHANGED <<accounts, customers, pledges, receipts, ledger, next_id, call, bank_pledges, bank_redemptions, sessions>>
        ELSE /\ receipts' = [r \in DOMAIN receipts \ {receipt_id} |-> receipts[r]]
             /\ last' = 200
             /\ UNCHANGED <<accounts, customers, pledges, ledger, next_id, call, bank_pledges, bank_redemptions, sessions>>

delete_receipt ==
    \E receipt_id \in 1..MaxReceipts : delete_receipt_request(receipt_id)

\* ---------------------------------------------------- interest calculator
\* datetime.date: the calendar the calculator steps through.
is_leap(year) == year % 4 = 0 /\ (year % 100 # 0 \/ year % 400 = 0)

days_in_month(year, month) ==
    CASE month \in {1, 3, 5, 7, 8, 10, 12} -> 31
      [] month \in {4, 6, 9, 11} -> 30
      [] month = 2 -> IF is_leap(year) THEN 29 ELSE 28

\* date(year, month, day) raises ValueError when the day is not in the month
date(year, month, day) ==
    IF month \in 1..12 /\ day \in 1..days_in_month(year, month)
    THEN [error |-> FALSE, year |-> year, month |-> month, day |-> day]
    ELSE [error |-> TRUE, year |-> year, month |-> month, day |-> day]

RECURSIVE days_before_month(_, _)
days_before_month(year, month) ==
    IF month = 1 THEN 0
    ELSE days_before_month(year, month - 1) + days_in_month(year, month - 1)

\* the day number that date comparison and date subtraction work on
toordinal(d) ==
    LET y == d.year - 1
    IN y * 365 + (y \div 4) - (y \div 100) + (y \div 400)
       + days_before_month(d.year, d.month) + d.day

\* lines 680-683 and 688-691: the same day of the following month
next_month(d) ==
    IF d.month = 12 THEN date(d.year + 1, 1, d.day)
    ELSE date(d.year, d.month + 1, d.day)

\* lines 686-710: the while loop; monthly is loan_amount * interest_rate / 100
RECURSIVE accrue(_, _, _, _)
accrue(current_month_start, calculation_date, monthly, total_interest_due) ==
    IF ~(toordinal(current_month_start) <= toordinal(calculation_date))
    THEN [error |-> FALSE, due |-> total_interest_due]
    ELSE LET next_month_start == next_month(current_month_start)
         IN IF next_month_start.error
            THEN [error |-> TRUE, due |-> 0]
            ELSE IF toordinal(next_month_start) > toordinal(calculation_date)
            THEN LET days_in_period == toordinal(calculation_date)
                                         - toordinal(current_month_start) + 1
                     month_interest == IF days_in_period <= 15
                                       THEN monthly \div 2
                                       ELSE monthly
                 IN [error |-> FALSE, due |-> total_interest_due + month_interest]
            ELSE accrue(next_month_start, calculation_date, monthly,
                        total_interest_due + monthly)

\* The result is [error, value]: error is the ValueError a date() call raises.
calculate_interest_outstanding(pledge_date, calculation_date, loan_amount, interest_rate, first_month_interest, total_interest_received) ==
    LET current_month_start == next_month(pledge_date)
    IN IF current_month_start.error
       THEN [error |-> TRUE, value |-> 0]
       ELSE LET r == accrue(current_month_start, calculation_date,
                            (loan_amount * interest_rate) \div 100,
                            first_month_interest)
            IN IF r.error THEN [error |-> TRUE, value |-> 0]
               ELSE [error |-> FALSE,
                     value |-> Max({0, r.due - total_interest_received})]

\* The pledges and calculation dates the calculator is applied to.  The
\* amounts keep loan_amount * interest_rate / 100 * 0.5 a whole number of
\* 0.01, so the float arithmetic of the code is exact on them.
LastYear == 2025

PledgeDates ==
    { d \in [year : {2024}, month : {1, 3, 8, 12}, day : {1, 15, 29, 30, 31}] :
        d.day <= days_in_month(d.year, d.month) }

CalculationDates ==
    { d \in [year : 2024..LastYear, month : 1..12, day : 1..31] :
        d.day <= days_in_month(d.year, d.month) }

InterestArguments ==
    [ pledge_date : PledgeDates,
      calculation_date : CalculationDates,
      loan_amount : {10000000},
      interest_rate : {2},
      first_month_interest : {0, 200000},
      total_interest_received : {0, 500000} ]

\* get_customer_outstanding_pledges for one pledge row: the call at lines
\* 301-308; a ValueError is answered 500 (line 342).
interest_outstanding ==
    /\ call.status = "requested"
    /\ LET a == call.args
           r == calculate_interest_outstanding(
                    a.pledge_date, a.calculation_date, a.loan_amount,
                    a.interest_rate, a.first_month_interest,
                    a.total_interest_received)
       IN /\ call' = [status |-> "returned", args |-> a, result |-> r]
          /\ last' = IF r.error THEN 500 ELSE 200
    /\ UNCHANGED <<accounts, customers, pledges, receipts, ledger, next_id,
                   bank_pledges, bank_redemptions, sessions>>

InitInterest ==
    /\ accounts = <<>>
    /\ customers = {}
    /\ pledges = <<>>
    /\ receipts = <<>>
    /\ ledger = {}
    /\ next_id = FirstIds
    /\ bank_pledges = <<>>
    /\ bank_redemptions = <<>>
    /\ last = 200
    /\ \E a \in InterestArguments : call = [status |-> "requested", args |-> a]
    /\ sessions = <<>>

\* ------------------------------------ the calculator on two calculation dates
\* the day after d (the later of two calculation dates of one pledge)
tomorrow(d) ==
    IF d.day < days_in_month(d.year, d.month)
    THEN [d EXCEPT !.day = @ + 1]
    ELSE IF d.month < 12 THEN [year |-> d.year, month |-> d.month + 1, day |-> 1]
    ELSE [year |-> d.year + 1, month |-> 1, day |-> 1]

\* get_customer_outstanding_pledges for the same pledge row on the day after
\* the first call
interest_outstanding_on_next_date ==
    /\ call.status = "returned"
    /\ LET a == call.args
           r == calculate_interest_outstanding(
                    a.pledge_date, tomorrow(a.calculation_date), a.loan_amount,
                    a.interest_rate, a.first_month_interest,
                    a.total_interest_received)
       IN /\ call' = [status |-> "returned twice", args |-> a,
                      result |-> call.result, later_result |-> r]
          /\ last' = IF r.error THEN 500 ELSE 200
    /\ UNCHANGED <<accounts, customers, pledges, receipts, ledger, next_id,
                   bank_pledges, bank_redemptions, sessions>>

\* ------------------------------------------- get_or_create_account, twice
\* The chart_of_accounts tables the calls start from: empty, seeded for
\* company 1 or for another company, or holding a customer's receivable.
AccountTables ==
    { <<>>,
      create_default_coa(<<>>, 1).accounts,
      create_default_coa(<<>>, 2).accounts,
      create_customer_coa_account(<<>>, 1, 1),
      create_customer_coa_account(create_default_coa(<<>>, 1).accounts, 1, 1),
      create_customer_coa_account(create_default_coa(<<>>, 2).accounts, 1, 1) }

\* the codes create_receipt_coa_entries asks for
AccountArguments ==
    [ company_id : {1, 2}, account_code : {"1000", "1051", "4000", "5030", "4050"} ]

InitAccounts ==
    /\ accounts \in AccountTables
    /\ customers = {}
    /\ pledges = <<>>
    /\ receipts = <<>>
    /\ ledger = {}
    /\ next_id = FirstIds
    /\ bank_pledges = <<>>
    /\ bank_redemptions = <<>>
    /\ last = 200
    /\ \E a \in AccountArguments : call = [status |-> "requested", args |-> a]
    /\ sessions = <<>>

get_or_create_account_first ==
    /\ call.status = "requested"
    /\ LET r == get_or_create_account(accounts, call.args.company_id,
                                      call.args.account_code)
       IN /\ call' = [status |-> "called once", args |-> call.args,
                      first |-> [id |-> r.id, error |-> r.error]]
          /\ accounts' = r.accounts
    /\ UNCHANGED <<customers, pledges, receipts, ledger, next_id, last,
                   bank_pledges, bank_redemptions, sessions>>

get_or_create_account_second ==
    /\ call.status = "called once"
    /\ LET r == get_or_create_account(accounts, call.args.company_id,
                                      call.args.account_code)
       IN /\ call' = [status |-> "called twice", args |-> call.args,
                      first |-> call.first,
                      second |-> [id |-> r.id, error |-> r.error]]
          /\ accounts' = r.accounts
    /\ UNCHANGED <<customers, pledges, receipts, ledger, next_id, last,
                   bank_pledges, bank_redemptions, sessions>>

\* ----------------------------------------------------------- bank pledges
MaxBankPledges == 1
MaxBankRedemptions == 1

\* POST /chart-of-accounts: refused when the company has the code already
create_account(accts, company_id, account_code) ==
    IF AccountByCode(accts, company_id, account_code) # 0
    THEN accts
    ELSE AddAccount(accts, company_id, account_code)

RECURSIVE create_accounts(_, _, _)
create_accounts(accts, company_id, codes) ==
    IF codes = <<>> THEN accts
    ELSE create_accounts(create_account(accts, company_id, Head(codes)),
                         company_id, Tail(codes))

\* The shop the bank operations start from: company 1 with its default
\* chart of accounts and customer 1; the accounts the bank postings look up
\* are not in the template and are added through POST /chart-of-accounts:
\* none of them, those of a transfer, or those of a transfer and a redemption.
ShopAccounts ==
    create_customer_coa_account(create_default_coa(<<>>, 1).accounts, 1, 1)

BankAccountTables ==
    { ShopAccounts,
      create_accounts(ShopAccounts, 1, <<"1051", "1500", "2100", "2200">>),
      create_accounts(ShopAccounts, 1,
                      <<"1051", "1500", "2100", "2200", "5300", "5400", "4200">>) }

InitBank ==
    /\ accounts \in BankAccountTables
    /\ customers = {1}
    /\ pledges = <<>>
    /\ receipts = <<>>
    /\ ledger = {}
    /\ next_id = FirstIds
    /\ bank_pledges = <<>>
    /\ bank_redemptions = <<>>
    /\ last = 200
    /\ call = NoCall
    /\ sessions = <<>>

\* pledges of any loan amount, a zero one included (loan_amount: float)
PledgeCreateBank ==
    [ company_id : Companies,
      customer_id : {1},
      scheme_id : {1},
      payment_account_id : {0},
      maximum_value : {300},
      loan_amount : {0, 100},
      interest_rate : {0},
      first_month_interest : {0},
      gross_weight : {10},
      net_weight : {9},
      pledge_items : {<<[gross_weight |-> 10, net_weight |-> 9]>>} ]

create_pledge_bank ==
    /\ next_id.pledge <= MaxPledges
    /\ \E d \in PledgeCreateBank : create_pledge_request(d)

\* bank_details rows (active)
Banks == {1}

PledgeToBankRequest ==
    [ pledge_id : 1..MaxPledges,
      bank_details_id : {1, 2},
      valuation_amount : {1000},
      ltv_percentage : {49, 50, 95, 96} ]

\* total_debits / total_credits: the running sums kept while adding lines
LineTotal(lines, transaction_type) ==
    SumSeq([i \in DOMAIN lines |->
               IF lines[i].transaction_type = transaction_type
               THEN lines[i].amount ELSE 0])

\* A variant of the transfer posting whose last Credit line carries the
\* amount of the first pair while the running totals are kept as intended.
create_bank_pledge_ledger_entries_copied_amount(accts, bank_pledge, company_id) ==
    LET customer_receivable_account == AccountByCode(accts, company_id, "1051")
        jewel_inventory_account == AccountByCode(accts, company_id, "1500")
        bank_pledge_asset_account == AccountByCode(accts, company_id, "2100")
        bank_loan_payable_account == AccountByCode(accts, company_id, "2200")
        reversal_amount == bank_pledge.original_shop_loan
                             + bank_pledge.outstanding_interest
        total == reversal_amount + bank_pledge.bank_loan_amount
    IN IF 0 \in {customer_receivable_account, jewel_inventory_account,
                 bank_pledge_asset_account, bank_loan_payable_account}
       THEN [status |-> "error", lines |-> <<>>, total_debits |-> 0,
             total_credits |-> 0]
       ELSE [status |-> "success",
             lines |->
               << Line(customer_receivable_account, "Debit",
                       reversal_amount, "Reverse receivable"),
                  Line(jewel_inventory_account, "Credit",
                       reversal_amount, "Transfer inventory to bank"),
                  Line(bank_pledge_asset_account, "Debit",
                       bank_pledge.bank_loan_amount, "Bank financing received"),
                  Line(bank_loan_payable_account, "Credit",
                       reversal_amount, "Bank loan liability created") >>,
             total_debits |-> total,
             total_credits |-> total]

\* The ledger lines of a transfer, or the error when one of 1051, 1500,
\* 2100, 2200 is missing; total_debits and total_credits as reported.
create_bank_pledge_ledger_entries(accts, bank_pledge, company_id) ==
    LET customer_receivable_account == AccountByCode(accts, company_id, "1051")
        jewel_inventory_account == AccountByCode(accts, company_id, "1500")
        bank_pledge_asset_account == AccountByCode(accts, company_id, "2100")
        bank_loan_payable_account == AccountByCode(accts, company_id, "2200")
        reversal_amount == bank_pledge.original_shop_loan
                             + bank_pledge.outstanding_interest
    IN IF 0 \in {customer_receivable_account, jewel_inventory_account,
                 bank_pledge_asset_account, bank_loan_payable_account}
       THEN [status |-> "error", lines |-> <<>>, total_debits |-> 0,
             total_credits |-> 0]
       ELSE LET lines ==
                    << Line(customer_receivable_account, "Debit",
                            reversal_amount, "Reverse receivable"),
                       Line(jewel_inventory_account, "Credit",
                            reversal_amount, "Transfer inventory to bank"),
                       Line(bank_pledge_asset_account, "Debit",
                            bank_pledge.bank_loan_amount, "Bank financing received"),
                       Line(bank_loan_payable_account, "Credit",
                            bank_pledge.bank_loan_amount, "Bank loan liability created") >>
                total_debits == LineTotal(lines, "Debit")
                total_credits == LineTotal(lines, "Credit")
            IN IF total_debits # total_credits
               THEN [status |-> "error", lines |-> <<>>, total_debits |-> 0,
                     total_credits |-> 0]
               ELSE [status |-> "success", lines |-> lines,
                     total_debits |-> total_debits,
                     total_credits |-> total_credits]

\* A variant of the LTV check without its upper limit.
ltv_in_range_unbounded(ltv_percentage) == 50 <= ltv_percentage

\* 50 <= request.ltv_percentage <= 95
ltv_in_range(ltv_percentage) == 50 <= ltv_percentage /\ ltv_percentage <= 95

transfer_pledge_to_bank ==
    \E request \in PledgeToBankRequest :
        IF ~ ( /\ request.pledge_id \in DOMAIN pledges
               /\ pledges[request.pledge_id].status = "Active" )
        THEN /\ last' = 404
             /\ UNCHANGED <<accounts, customers, pledges, receipts, ledger, next_id, call, bank_pledges, bank_redemptions, sessions>>
        ELSE IF ~ ltv_in_range(request.ltv_percentage)
        THEN /\ last' = 400
             /\ UNCHANGED <<accounts, customers, pledges, receipts, ledger, next_id, call, bank_pledges, bank_redemptions, sessions>>
        ELSE IF request.bank_details_id \notin Banks
        THEN /\ last' = 404
             /\ UNCHANGED <<accounts, customers, pledges, receipts, ledger, next_id, call, bank_pledges, bank_redemptions, sessions>>
        ELSE
        LET pledge == pledges[request.pledge_id]
            id == next_id.bank_pledge
            bank_pledge ==
                [ company_id |-> pledge.company_id,
                  pledge_id |-> request.pledge_id,
                  bank_details_id |-> request.bank_details_id,
                  valuation_amount |-> request.valuation_amount,
                  ltv_percentage |-> request.ltv_percentage,
                  bank_loan_amount |->
                      (request.valuation_amount * request.ltv_percentage) \div 100,
                  original_shop_loan |-> pledge.loan_amount,
                  outstanding_interest |-> pledge.first_month_interest,
                  status |-> "WITH_BANK" ]
            ledger_result == create_bank_pledge_ledger_entries(
                                 accounts, bank_pledge, pledge.company_id)
        IN
        /\ id <= MaxBankPledges
        /\ IF ledger_result.status # "success"
           THEN \* the flushed row is rolled back, its id is spent
                /\ next_id' = [next_id EXCEPT !.bank_pledge = id + 1]
                /\ last' = 400
                /\ UNCHANGED <<accounts, customers, pledges, receipts, ledger, call, bank_pledges, bank_redemptions, sessions>>
           ELSE /\ bank_pledges' = bank_pledges @@ (id :> bank_pledge)
                /\ ledger' = ledger \cup
                      Entries(ledger_result.lines, pledge.company_id, "BankPledge",
                              id, next_id.ledger)
                /\ next_id' = [next_id EXCEPT !.bank_pledge = id + 1,
                                              !.ledger = @ + Len(ledger_result.lines)]
                /\ pledges' = [pledges EXCEPT ![request.pledge_id].status = "WITH_BANK"]
                /\ last' = 201
                /\ UNCHANGED <<accounts, customers, receipts, call, bank_redemptions, sessions>>

BankRedemptionRequest ==
    [ amount_paid_to_bank : {450, 950},
      interest_on_bank_loan : {0, 10},
      bank_charges : {0, 5},
      actual_redemption_value : {900, 1000, 1100} ]

\* The ledger lines of a redemption, or the error when one of 1000, 2200,
\* 5300, 5400, 4200 is missing.
create_bank_redemption_ledger_entries(accts, redemption, bank_pledge, company_id) ==
    LET cash_account == AccountByCode(accts, company_id, "1000")
        bank_loan_payable_account == AccountByCode(accts, company_id, "2200")
        interest_expense_account == AccountByCode(accts, company_id, "5300")
        charges_expense_account == AccountByCode(accts, company_id, "5400")
        gain_loss_account == AccountByCode(accts, company_id, "4200")
        customer_receivable_account == AccountByCode(accts, company_id, "1051")
        jewel_inventory_account == AccountByCode(accts, company_id, "1500")
        lines ==
              << Line(bank_loan_payable_account, "Debit",
                      redemption.amount_paid_to_bank, "Pay principal to bank"),
                 Line(cash_account, "Credit",
                      redemption.amount_paid_to_bank, "Cash payment for principal") >>
           \o (IF redemption.interest_on_bank_loan > 0
               THEN << Line(interest_expense_account, "Debit",
                            redemption.interest_on_bank_loan, "Bank interest"),
                       Line(cash_account, "Credit",
                            redemption.interest_on_bank_loan, "Cash payment for bank interest") >>
               ELSE <<>>)
           \o (IF redemption.bank_charges > 0
               THEN << Line(charges_expense_account, "Debit",
                            redemption.bank_charges, "Bank charges"),
                       Line(cash_account, "Credit",
                            redemption.bank_charges, "Cash payment for bank charges") >>
               ELSE <<>>)
           \o (IF redemption.price_difference > 0
               THEN << Line(cash_account, "Debit",
                            redemption.price_difference, "Gain on pledge sale - cash"),
                       Line(gain_loss_account, "Credit",
                            redemption.price_difference, "Gain on pledge sale") >>
               ELSE IF redemption.price_difference < 0
               THEN << Line(gain_loss_account, "Debit",
                            Abs(redemption.price_difference), "Loss on pledge sale"),
                       Line(cash_account, "Credit",
                            Abs(redemption.price_difference), "Loss on pledge sale - cash") >>
               ELSE <<>>)
           \o (IF /\ bank_pledge.original_shop_loan > 0
                  /\ customer_receivable_account # 0
                  /\ jewel_inventory_account # 0
               THEN << Line(jewel_inventory_account, "Debit",
                            bank_pledge.original_shop_loan, "Restore inventory"),
                       Line(customer_receivable_account, "Credit",
                            bank_pledge.original_shop_loan, "Restore customer receivable") >>
               ELSE <<>>)
        total_debits == LineTotal(lines, "Debit")
        total_credits == LineTotal(lines, "Credit")
        error == [status |-> "error", lines |-> <<>>, total_debits |-> 0,
                  total_credits |-> 0]
    IN IF 0 \in {cash_account, bank_loan_payable_account, interest_expense_account,
                 charges_expense_account, gain_loss_account}
       THEN error
       ELSE IF total_debits # total_credits
       THEN error
       ELSE [status |-> "success", lines |-> lines,
             total_debits |-> total_debits, total_credits |-> total_credits]

\* A variant of the bank pledge lookup without the status filter.
bank_pledge_any_status(bps, bank_pledge_id) == bank_pledge_id \in DOMAIN bps

\* BankPledge.id == bank_pledge_id, BankPledge.status == "WITH_BANK": .first()
bank_pledge_with_bank(bps, bank_pledge_id) ==
    /\ bank_pledge_id \in DOMAIN bps
    /\ bps[bank_pledge_id].status = "WITH_BANK"

\* BankRedemption.remarks: the receipt-funded handler writes
\* f"Customer receipt #{receipt_id} + {additional_business_payment} business
\* payment. ...", kept as the two values the text is formatted from; the
\* plain handler stores the request's remarks (none)
NoRemarks == [receipt_id |-> 0, additional_business_payment |-> 0]

\* lines 361-409 and 570-623: the part the two redemption handlers share,
\* from the BankRedemption row to the commit; receipt_id is the receipt the
\* receipt-funded handler marks as linked (line 620), 0 in the other handler
redeem(bank_pledge_id, amount_paid_to_bank, interest_on_bank_loan, bank_charges, actual_redemption_value, remarks, receipt_id) ==
    LET bank_pledge == bank_pledges[bank_pledge_id]
        id == next_id.bank_redemption
        redemption ==
            [ company_id |-> bank_pledge.company_id,
              bank_pledge_id |-> bank_pledge_id,
              amount_paid_to_bank |-> amount_paid_to_bank,
              interest_on_bank_loan |-> interest_on_bank_loan,
              bank_charges |-> bank_charges,
              bank_valuation |-> bank_pledge.valuation_amount,
              actual_redemption_value |-> actual_redemption_value,
              price_difference |->
                  actual_redemption_value - bank_pledge.valuation_amount,
              status |-> "REDEEMED",
              remarks |-> remarks ]
        ledger_result == create_bank_redemption_ledger_entries(
                             accounts, redemption, bank_pledge, bank_pledge.company_id)
    IN
    /\ id <= MaxBankRedemptions
    /\ IF ledger_result.status # "success"
       THEN \* the flushed row is rolled back, its id is spent
            /\ next_id' = [next_id EXCEPT !.bank_redemption = id + 1]
            /\ last' = 400
            /\ UNCHANGED <<accounts, customers, pledges, receipts, ledger, call, bank_pledges, bank_redemptions>>
       ELSE /\ bank_redemptions' = bank_redemptions @@ (id :> redemption)
            /\ ledger' = ledger \cup
                  Entries(ledger_result.lines, bank_pledge.company_id,
                          "BankRedemption", id, next_id.ledger)
            /\ next_id' = [next_id EXCEPT !.bank_redemption = id + 1,
                                          !.ledger = @ + Len(ledger_result.lines)]
            /\ bank_pledges' = [bank_pledges EXCEPT ![bank_pledge_id].status = "REDEEMED"]
            /\ pledges' = IF bank_pledge.pledge_id \in DOMAIN pledges
                          THEN [pledges EXCEPT ![bank_pledge.pledge_id].status = "Redeemed"]
                          ELSE pledges
            /\ receipts' =
                  IF receipt_id = 0 THEN receipts
                  ELSE [receipts EXCEPT ![receipt_id].remarks =
                            "Linked to bank redemption #" \o str(id)]
            /\ last' = 201
            /\ UNCHANGED <<accounts, customers, call>>

redeem_pledge_from_bank ==
    \E bank_pledge_id \in 1..MaxBankPledges, request \in BankRedemptionRequest :
        IF ~ bank_pledge_with_bank(bank_pledges, bank_pledge_id)
        THEN /\ last' = 404
             /\ UNCHANGED <<accounts, customers, pledges, receipts, ledger, next_id, call, bank_pledges, bank_redemptions, sessions>>
        ELSE IF request.amount_paid_to_bank < bank_pledges[bank_pledge_id].bank_loan_amount
        THEN /\ last' = 400
             /\ UNCHANGED <<accounts, customers, pledges, receipts, ledger, next_id, call, bank_pledges, bank_redemptions, sessions>>
        ELSE
             /\ redeem(bank_pledge_id, request.amount_paid_to_bank,
                       request.interest_on_bank_loan, request.bank_charges,
                       request.actual_redemption_value, NoRemarks, 0)
             /\ UNCHANGED sessions

\* query parameters of POST /bank-pledges/{id}/redeem-with-receipt
RedeemWithReceiptRequest ==
    [ receipt_id : 1..MaxReceipts,
      use_receipt_amount : {400, 950},
      additional_business_payment : {0, 100} ]

redeem_pledge_with_receipt ==
    \E bank_pledge_id \in 1..MaxBankPledges, request \in RedeemWithReceiptRequest :
        LET total_to_bank == request.use_receipt_amount
                               + request.additional_business_payment
        IN
        IF ~ bank_pledge_with_bank(bank_pledges, bank_pledge_id)
        THEN /\ last' = 404
             /\ UNCHANGED <<accounts, customers, pledges, receipts, ledger, next_id, call, bank_pledges, bank_redemptions, sessions>>
        ELSE IF request.receipt_id \notin DOMAIN receipts
        THEN /\ last' = 404
             /\ UNCHANGED <<accounts, customers, pledges, receipts, ledger, next_id, call, bank_pledges, bank_redemptions, sessions>>
        ELSE IF total_to_bank < bank_pledges[bank_pledge_id].bank_loan_amount
        THEN /\ last' = 400
             /\ UNCHANGED <<accounts, customers, pledges, receipts, ledger, next_id, call, bank_pledges, bank_redemptions, sessions>>
        ELSE /\ redeem(bank_pledge_id, total_to_bank, 0, 0, total_to_bank,
                       [ receipt_id |-> request.receipt_id,
                         additional_business_payment |->
                             request.additional_business_payment ],
                       request.receipt_id)
             /\ UNCHANGED sessions

BankPledgeEntries(led, bank_pledge_id) ==
    {e \in led : e.reference_type = "BankPledge" /\ e.reference_id = bank_pledge_id}

\* A variant of the reversal that repeats each entry with its own type.
reverse_bank_pledge_ledger_entries_same_type(led, bank_pledge_id) ==
    LET original_entries == ById(BankPledgeEntries(led, bank_pledge_id))
    IN [ status |-> IF original_entries = <<>> THEN "error" ELSE "success",
         entries |->
           { [ company_id |-> original_entries[i].company_id,
               account_id |-> original_entries[i].account_id,
               transaction_type |-> original_entries[i].transaction_type,
               amount |-> original_entries[i].amount,
               description |-> "REVERSAL: " \o original_entries[i].description,
               reference_type |-> "BankPledgeReversal",
               reference_id |-> bank_pledge_id,
               id |-> next_id.ledger + i - 1 ] : i \in DOMAIN original_entries } ]

\* one reversing line per entry of the transfer
reverse_bank_pledge_ledger_entries(led, bank_pledge_id) ==
    LET original_entries == ById(BankPledgeEntries(led, bank_pledge_id))
    IN [ status |-> IF original_entries = <<>> THEN "error" ELSE "success",
         entries |->
           { [ company_id |-> original_entries[i].company_id,
               account_id |-> original_entries[i].account_id,
               transaction_type |->
                   IF original_entries[i].transaction_type = "Debit"
                   THEN "Credit" ELSE "Debit",
               amount |-> original_entries[i].amount,
               description |-> "REVERSAL: " \o original_entries[i].description,
               reference_type |-> "BankPledgeReversal",
               reference_id |-> bank_pledge_id,
               id |-> next_id.ledger + i - 1 ] : i \in DOMAIN original_entries } ]

\* lines 462-490: the handler after its look-up of the bank pledge
cancel(bank_pledge_id) ==
        LET bank_pledge == bank_pledges[bank_pledge_id]
            reversal_result == reverse_bank_pledge_ledger_entries(ledger, bank_pledge_id)
        IN
        IF reversal_result.status # "success"
        THEN /\ last' = 400
             /\ UNCHANGED <<accounts, customers, pledges, receipts, ledger, next_id, call, bank_pledges, bank_redemptions>>
        ELSE /\ ledger' = ledger \cup reversal_result.entries
             /\ next_id' = [next_id EXCEPT !.ledger = @ + Cardinality(reversal_result.entries)]
             /\ bank_pledges' = [bank_pledges EXCEPT ![bank_pledge_id].status = "CANCELLED"]
             /\ pledges' = IF bank_pledge.pledge_id \in DOMAIN pledges
                           THEN [pledges EXCEPT ![bank_pledge.pledge_id].status = "Active"]
                           ELSE pledges
             /\ last' = 200
             /\ UNCHANGED <<accounts, customers, receipts, call, bank_redemptions>>

cancel_bank_pledge ==
    \E bank_pledge_id \in 1..MaxBankPledges :
        IF ~ bank_pledge_with_bank(bank_pledges, bank_pledge_id)
        THEN /\ last' = 404
             /\ UNCHANGED <<accounts, customers, pledges, receipts, ledger, next_id, call, bank_pledges, bank_redemptions, sessions>>
        ELSE /\ cancel(bank_pledge_id)
             /\ UNCHANGED sessions

\* ------------------------------------------------- numbering of documents
\* Pledges of two schemes and receipts of two companies, created one after
\* the other, with Draft receipts deleted in between.
MaxNumbered == 3

\* companies rows (the second one has no chart of accounts of its own)
NumberedCompanies == {1, 2}

InitNumbers ==
    /\ accounts = ShopAccounts
    /\ customers = {1}
    /\ pledges = <<>>
    /\ receipts = <<>>
    /\ ledger = {}
    /\ next_id = FirstIds
    /\ bank_pledges = <<>>
    /\ bank_redemptions = <<>>
    /\ last = 200
    /\ call = NoCall
    /\ sessions = <<>>

\* POST /pledges/ for either scheme
PledgeCreateNumbered ==
    [ company_id : {1},
      customer_id : {1},
      scheme_id : DOMAIN Schemes,
      payment_account_id : {0},
      maximum_value : {300},
      loan_amount : {100},
      interest_rate : {0},
      first_month_interest : {0},
      gross_weight : {10},
      net_weight : {9},
      pledge_items : {<<[gross_weight |-> 10, net_weight |-> 9]>>} ]

create_pledge_numbered ==
    /\ next_id.pledge <= MaxNumbered
    /\ \E d \in PledgeCreateNumbered : create_pledge_request(d)

\* POST /api/receipts/ of either company, one item on the first pledge
PledgeReceiptCreateNumbered ==
    { [Body(<<Item(1, 0, 0, 0, 0, "Partial", 0)>>, 0) EXCEPT !.company_id = c]
        : c \in NumberedCompanies }

create_receipt_numbered ==
    /\ next_id.receipt <= MaxNumbered
    /\ \E receipt_data \in PledgeReceiptCreateNumbered :
          create_receipt_request(receipt_data)

delete_receipt_numbered ==
    \E receipt_id \in 1..MaxNumbered : delete_receipt_request(receipt_id)

\* ------------------------------------------ receipts and bank redemptions
\* The receipt lifecycle next to the receipt-funded redemption, which writes
\* to the receipt it is given.
InitLinked ==
    /\ accounts = create_accounts(ShopAccounts, 1,
                      <<"1051", "1500", "2100", "2200", "5300", "5400", "4200">>)
    /\ customers = {1}
    /\ pledges = <<>>
    /\ receipts = <<>>
    /\ ledger = {}
    /\ next_id = FirstIds
    /\ bank_pledges = <<>>
    /\ bank_redemptions = <<>>
    /\ last = 200
    /\ call = NoCall
    /\ sessions = <<>>

\* POST /api/receipts/ with one partial payment
PledgeReceiptCreateLinked ==
    { Body(<<Item(p, 40, 2, 0, 0, "Partial", 42)>>, 42) : p \in 1..MaxPledges }

create_receipt_linked ==
    /\ next_id.receipt <= MaxReceipts
    /\ \E receipt_data \in PledgeReceiptCreateLinked :
          create_receipt_request(receipt_data)

\* ------------------------------------------------- requests in flight
\* Handlers run in a thread pool, each in its own session and transaction
\* (READ COMMITTED).  A request in flight has begun, has read what its
\* handler reads first, and ends with one step that does the rest of the
\* handler up to its commit.
MaxSessions == 2

\* the id of the next request
Begin == CHOOSE n \in 1..MaxSessions : n \notin DOMAIN sessions

\* the requests in flight without request n
End(n) == [m \in DOMAIN sessions \ {n} |-> sessions[m]]

\* POST /pledges/ up to generate_pledge_no (lines 51-90)
create_pledge_begin ==
    /\ Cardinality(DOMAIN sessions) < MaxSessions
    /\ next_id.pledge <= MaxNumbered
    /\ \E d \in PledgeCreateNumbered :
          sessions' = sessions @@
              (Begin :> [ handler |-> "create_pledge",
                          request |-> d,
                          pledge_no |-> generate_pledge_no(pledges, d.scheme_id) ])
    /\ UNCHANGED <<accounts, customers, pledges, receipts, ledger, next_id, last, call, bank_pledges, bank_redemptions>>

\* POST /pledges/ from db.add(new_pledge) to the response
create_pledge_end ==
    \E n \in DOMAIN sessions :
        /\ sessions[n].handler = "create_pledge"
        /\ create_pledge_flush(sessions[n].request, sessions[n].pledge_no)
        /\ sessions' = End(n)

\* POST /api/receipts/ up to the validation of the items (lines 54-76): the
\* receipt number is generated and the pledges of the items are loaded
create_receipt_begin ==
    /\ Cardinality(DOMAIN sessions) < MaxSessions
    /\ next_id.receipt <= MaxNumbered
    /\ \E receipt_data \in PledgeReceiptCreateLinked :
          sessions' = sessions @@
              (Begin :> [ handler |-> "create_receipt",
                          request |-> receipt_data,
                          receipt_no |-> generate_receipt_no(
                                             receipts, receipt_data.company_id),
                          pledges |-> pledges ])
    /\ UNCHANGED <<accounts, customers, pledges, receipts, ledger, next_id, last, call, bank_pledges, bank_redemptions>>

\* POST /api/receipts/ from db.add(receipt) to the response
create_receipt_end ==
    \E n \in DOMAIN sessions :
        /\ sessions[n].handler = "create_receipt"
        /\ create_receipt_flush(sessions[n].request, sessions[n].receipt_no,
                                sessions[n].pledges)
        /\ sessions' = End(n)

\* POST /bank-pledges/{id}/redeem up to its look-up of the bank pledge
\* (status == "WITH_BANK", lines 341-351)
redeem_pledge_from_bank_begin ==
    /\ Cardinality(DOMAIN sessions) < MaxSessions
    /\ \E bank_pledge_id \in 1..MaxBankPledges, request \in BankRedemptionRequest :
          /\ bank_pledge_with_bank(bank_pledges, bank_pledge_id)
          /\ sessions' = sessions @@
                (Begin :> [ handler |-> "redeem_pledge_from_bank",
                            bank_pledge_id |-> bank_pledge_id,
                            request |-> request ])
    /\ UNCHANGED <<accounts, customers, pledges, receipts, ledger, next_id, last, call, bank_pledges, bank_redemptions>>

\* the rest of the handler: the status is not read again
redeem_pledge_from_bank_end ==
    \E n \in DOMAIN sessions :
        LET bank_pledge_id == sessions[n].bank_pledge_id
            request == sessions[n].request
        IN
        /\ sessions[n].handler = "redeem_pledge_from_bank"
        /\ sessions' = End(n)
        /\ IF request.amount_paid_to_bank < bank_pledges[bank_pledge_id].bank_loan_amount
           THEN /\ last' = 400
                /\ UNCHANGED <<accounts, customers, pledges, receipts, ledger, next_id, call, bank_pledges, bank_redemptions>>
           ELSE redeem(bank_pledge_id, request.amount_paid_to_bank,
                       request.interest_on_bank_loan, request.bank_charges,
                       request.actual_redemption_value, NoRemarks, 0)

\* POST /bank-pledges/{id}/redeem-with-receipt up to its look-ups of the
\* bank pledge and the receipt (lines 535-558)
redeem_pledge_with_receipt_begin ==
    /\ Cardinality(DOMAIN sessions) < MaxSessions
    /\ \E bank_pledge_id \in 1..MaxBankPledges, request \in RedeemWithReceiptRequest :
          /\ bank_pledge_with_bank(bank_pledges, bank_pledge_id)
          /\ request.receipt_id \in DOMAIN receipts
          /\ sessions' = sessions @@
                (Begin :> [ handler |-> "redeem_pledge_with_receipt",
                            bank_pledge_id |-> bank_pledge_id,
                            request |-> request ])
    /\ UNCHANGED <<accounts, customers, pledges, receipts, ledger, next_id, last, call, bank_pledges, bank_redemptions>>

redeem_pledge_with_receipt_end ==
    \E n \in DOMAIN sessions :
        LET bank_pledge_id == sessions[n].bank_pledge_id
            request == sessions[n].request
            total_to_bank == request.use_receipt_amount
                               + request.additional_business_payment
        IN
        /\ sessions[n].handler = "redeem_pledge_with_receipt"
        /\ sessions' = End(n)
        /\ IF total_to_bank < bank_pledges[bank_pledge_id].bank_loan_amount
           THEN /\ last' = 400
                /\ UNCHANGED <<accounts, customers, pledges, receipts, ledger, next_id, call, bank_pledges, bank_redemptions>>
           ELSE redeem(bank_pledge_id, total_to_bank, 0, 0, total_to_bank,
                       [ receipt_id |-> request.receipt_id,
                         additional_business_payment |->
                             request.additional_business_payment ],
                       request.receipt_id)

\* POST /bank-pledges/{id}/cancel up to its look-up of the bank pledge
\* (lines 452-460)
cancel_bank_pledge_begin ==
    /\ Cardinality(DOMAIN sessions) < MaxSessions
    /\ \E bank_pledge_id \in 1..MaxBankPledges :
          /\ bank_pledge_with_bank(bank_pledges, bank_pledge_id)
          /\ sessions' = sessions @@
                (Begin :> [ handler |-> "cancel_bank_pledge",
                            bank_pledge_id |-> bank_pledge_id ])
    /\ UNCHANGED <<accounts, customers, pledges, receipts, ledger, next_id, last, call, bank_pledges, bank_redemptions>>

cancel_bank_pledge_end ==
    \E n \in DOMAIN sessions :
        /\ sessions[n].handler = "cancel_bank_pledge"
        /\ sessions' = End(n)
        /\ cancel(sessions[n].bank_pledge_id)

\* ------------------------------------------------------------- properties
Debits(S) == SumAmount({e \in S : e.transaction_type = "Debit"})
Credits(S) == SumAmount({e \in S : e.transaction_type = "Credit"})

\* every account create_pledge_ledger_entries looks up for the pledge exists
PledgeAccountsPresent(accts, pledge) ==
    /\ AccountByCode(accts, pledge.company_id, "1040") # 0
    /\ AccountByCode(accts, pledge.company_id, customer_code(pledge.customer_id)) # 0
    /\ IF pledge.payment_account_id # 0
       THEN pledge.payment_account_id \in DOMAIN accts
       ELSE AccountByCode(accts, pledge.company_id, "1000") # 0
    /\ pledge.first_month_interest > 0 =>
           AccountByCode(accts, pledge.company_id, "4000") # 0

\* C1: when a pledge is posted with all the accounts it references present,
\* the ledger entries of reference_type "Pledge" for it have equal Debit and
\* Credit totals.
C1_PledgePostingBalanced ==
    [][ \A p \in DOMAIN pledges' \ DOMAIN pledges :
            PledgeAccountsPresent(accounts, pledges'[p]) =>
                Debits(PledgeEntries(ledger', p, pledges'[p].company_id))
                  = Credits(PledgeEntries(ledger', p, pledges'[p].company_id)) ]_vars

\* C2: the ledger entries of reference_type "Receipt" of every receipt that
\* create_receipt accepted and post_receipt posted have equal Debit and
\* Credit totals (equal up to the rounding difference create_receipt lets
\* through, so that a difference of 0.01 is not what refutes it).
C2_ReceiptPostingBalanced ==
    \A r \in DOMAIN receipts :
        receipts[r].coa_entry_status = "Posted" =>
            Abs(Debits(ReceiptEntries(ledger, r, receipts[r].company_id))
                  - Credits(ReceiptEntries(ledger, r, receipts[r].company_id)))
              <= Tolerance

\* the accounts a create_pledge request needs, before the request
RequestAccountsPresent(accts, d) ==
    /\ AccountByCode(accts, d.company_id, "1040") # 0
    /\ AccountByCode(accts, d.company_id, customer_code(d.customer_id)) # 0
    /\ IF d.payment_account_id # 0
       THEN /\ d.payment_account_id \in DOMAIN accts
            /\ accts[d.payment_account_id].company_id = d.company_id
       ELSE AccountByCode(accts, d.company_id, "1000") # 0
    /\ ( \/ d.first_month_interest > 0
         \/ d.loan_amount * (IF d.interest_rate # 0 THEN d.interest_rate
                             ELSE Schemes[d.scheme_id].interest_rate_per_month) >= 100 )
       => AccountByCode(accts, d.company_id, "4000") # 0

\* C3: a create_pledge request for which a needed account is missing persists
\* no pledge row and no ledger entry and reports a failure.
C3_PledgeCreationAllOrNothing ==
    [][ \A d \in PledgeCreate :
            ( /\ next_id.pledge <= MaxPledges
              /\ create_pledge_request(d)
              /\ ~ RequestAccountsPresent(accounts, d) )
            => /\ pledges' = pledges
               /\ ledger' = ledger
               /\ last' >= 400 ]_vars

\* C4: no step removes or changes a ledger entry of a pledge; reversal only
\* adds entries.
C4_PledgeEntriesKept ==
    [][ \A e \in ledger : e.reference_type = "Pledge" => e \in ledger' ]_vars

AllowedTransitions ==
    { <<"Active", "Closed">>, <<"Active", "Redeemed">>, <<"Active", "Forfeited">>,
      <<"Active", "WITH_BANK">>, <<"WITH_BANK", "Redeemed">>, <<"WITH_BANK", "Active">> }

\* C5: every change of a pledge's status is one of the allowed transitions, so
\* a Closed, Redeemed or Forfeited pledge keeps its status.
C5_PledgeStatusMachine ==
    [][ \A p \in DOMAIN pledges \cap DOMAIN pledges' :
            pledges'[p].status # pledges[p].status =>
                <<pledges[p].status, pledges'[p].status>> \in AllowedTransitions ]_vars

\* C6: a Posted receipt has coa_entry_status Posted and has ledger entries, and
\* receipt_status only goes Draft -> Posted (with the entries created in that
\* step) and Posted -> Void.
C6_PostedReceiptHasEntries ==
    /\ [](\A r \in DOMAIN receipts :
            receipts[r].receipt_status = "Posted" =>
                /\ receipts[r].coa_entry_status = "Posted"
                /\ ReceiptEntries(ledger, r, receipts[r].company_id) # {})
    /\ [][ \A r \in DOMAIN receipts \cap DOMAIN receipts' :
              receipts'[r].receipt_status # receipts[r].receipt_status =>
                  <<receipts[r].receipt_status, receipts'[r].receipt_status>>
                      \in {<<"Draft", "Posted">>, <<"Posted", "Void">>} ]_vars

\* the paid_principal of the items for the pledge in receipts that are Posted
PostedPrincipal(rcpts, pledge_id) ==
    SumSeq([r \in 1..MaxReceipts |->
        IF r \in DOMAIN rcpts /\ rcpts[r].receipt_status = "Posted"
        THEN SumSeq([i \in DOMAIN rcpts[r].receipt_items |->
                IF rcpts[r].receipt_items[i].pledge_id = pledge_id
                THEN rcpts[r].receipt_items[i].paid_principal ELSE 0])
        ELSE 0])

\* C7: total_principal_received is the principal paid by the Posted receipts,
\* and a step that creates or deletes a receipt leaves every pledge's
\* accumulators and status as they were.
C7_BalancesReflectPostedReceipts ==
    /\ [](\A p \in DOMAIN pledges :
            pledges[p].total_principal_received = PostedPrincipal(receipts, p))
    /\ [][ DOMAIN receipts' # DOMAIN receipts =>
              \A p \in DOMAIN pledges \cap DOMAIN pledges' :
                  /\ pledges'[p].total_principal_received = pledges[p].total_principal_received
                  /\ pledges'[p].total_interest_received = pledges[p].total_interest_received
                  /\ pledges'[p].status = pledges[p].status ]_vars

\* the status the payment types of the receipt's items for the pledge call for
Outcome(items, pledge_id) ==
    LET types == { strip_lower(items[i].payment_type) :
                     i \in {j \in DOMAIN items : items[j].pledge_id = pledge_id} }
    IN IF types \subseteq FullTypes THEN "Redeemed"
       ELSE IF types \subseteq CloseTypes THEN "Closed"
       ELSE IF types \cap (FullTypes \cup CloseTypes) = {} THEN "Active"
       ELSE "mixed"

ItemPledges(items) == { items[i].pledge_id : i \in DOMAIN items }

\* C8: for a pledge that is Active when the receipt is created, a full-payment
\* type gives Redeemed and a closure type gives Closed, with pledge_close_date
\* set, and any other type leaves it Active with no pledge_close_date; posting
\* the receipt keeps that outcome.
C8_StatusFollowsPaymentType ==
    [][ /\ \A r \in DOMAIN receipts' \ DOMAIN receipts :
             \A p \in ItemPledges(receipts'[r].receipt_items) :
                 pledges[p].status = "Active" /\ pledges[p].pledge_close_date = 0 =>
                     LET o == Outcome(receipts'[r].receipt_items, p) IN
                     o # "mixed" =>
                         /\ pledges'[p].status = o
                         /\ (pledges'[p].pledge_close_date # 0) = (o # "Active")
        /\ \A r \in DOMAIN receipts \cap DOMAIN receipts' :
             ( /\ receipts[r].receipt_status = "Draft"
               /\ receipts'[r].coa_entry_status = "Posted" ) =>
                 \A p \in ItemPledges(receipts[r].receipt_items) :
                     /\ pledges'[p].status = pledges[p].status
                     /\ pledges'[p].pledge_close_date = pledges[p].pledge_close_date
      ]_vars

\* C9: an update_pledge request answered with an error leaves the pledge's
\* fields, its items and its ledger entries as they were.
C9_UpdatePledgeAllOrNothing ==
    [][ (update_pledge /\ last' >= 400) =>
            (pledges' = pledges /\ ledger' = ledger) ]_vars

LinesOf(S) ==
    { [account_id |-> e.account_id, transaction_type |-> e.transaction_type,
       amount |-> e.amount] : e \in S }

SeqLines(lines) ==
    { [account_id |-> lines[i].account_id,
       transaction_type |-> lines[i].transaction_type,
       amount |-> lines[i].amount] : i \in DOMAIN lines }

\* C10: a step that changes a pledge's loan_amount is answered with success
\* and leaves, as the pledge's ledger entries, the ones pledge posting
\* produces for the new loan_amount.
C10_LoanAmountUpdatePosts ==
    [][ \A p \in DOMAIN pledges \cap DOMAIN pledges' :
            pledges'[p].loan_amount # pledges[p].loan_amount =>
                /\ last' < 400
                /\ LinesOf(PledgeEntries(ledger', p, pledges'[p].company_id))
                     = SeqLines(create_pledge_ledger_entries(
                                    accounts', pledges'[p], pledges'[p].company_id)) ]_vars

\* ------------------------------------------------ properties: interest
\* The month grid of the claim, in closed form: the k-th month start keeps
\* the pledge's day of month.
MonthStart(pledge_date, k) ==
    LET n == pledge_date.month - 1 + k
    IN [year |-> pledge_date.year + (n \div 12), month |-> (n % 12) + 1,
        day |-> pledge_date.day]

le(d1, d2) ==
    \/ d1.year < d2.year
    \/ d1.year = d2.year /\ d1.month < d2.month
    \/ d1.year = d2.year /\ d1.month = d2.month /\ d1.day <= d2.day

\* the number of month starts on or before the calculation date
MonthsStarted(pledge_date, calculation_date) ==
    Cardinality({ k \in 1..36 : le(MonthStart(pledge_date, k), calculation_date) })

InterestDue(a) ==
    LET k == MonthsStarted(a.pledge_date, a.calculation_date)
        start == MonthStart(a.pledge_date, k)
        daysInPeriod == toordinal(a.calculation_date) - toordinal(start) + 1
        monthly == (a.loan_amount * a.interest_rate) \div 100
    IN a.first_month_interest + (k - 1) * monthly
         + (IF daysInPeriod <= 15 THEN monthly \div 2 ELSE monthly)

IsCalendarDate(d) == d.month \in 1..12 /\ d.day \in 1..days_in_month(d.year, d.month)

\* the calculation date falls in a partial month after the first month, and
\* every month start up to that month is a day of the calendar
InPartialMonth(a) ==
    LET k == MonthsStarted(a.pledge_date, a.calculation_date)
    IN k >= 1 /\ \A j \in 1..k : IsCalendarDate(MonthStart(a.pledge_date, j))

\* C11: for any pledge whose calculation date falls in a partial month after
\* the first month, the calculator returns max(0, due - received), where due
\* is first_month_interest plus a full month's interest per completed month
\* plus half a month's interest for a partial month of at most 15 days and a
\* full month's interest for one of 16 days or more.
C11_TieredInterest ==
    (call.status = "returned" /\ InPartialMonth(call.args))
        => /\ ~call.result.error
           /\ call.result.value
                = Max({0, InterestDue(call.args)
                            - call.args.total_interest_received})

\* C12: the calculator never fails and returns an amount >= 0, for every
\* pledge date (days 29, 30 and 31 included) and every calculation date.
C12_InterestNeverFails ==
    call.status = "returned"
        => ~call.result.error /\ call.result.value >= 0

\* ----------------------------------------------------- properties: accounts
\* "accounts_created": 20 in the response of initialize_default_coa
accounts_created == 20

CompanyAccounts(accts, company_id) ==
    {i \in DOMAIN accts : accts[i].company_id = company_id}

TemplateCodes == {DEFAULT_ACCOUNTS[i] : i \in DOMAIN DEFAULT_ACCOUNTS}

\* C13: seeding the default chart of accounts for a company without accounts
\* creates exactly 20 accounts, one per template code, and reports 20
\* created; for a company that already has accounts it creates none and
\* reports that accounts already exist.
C13_SeedingCreatesTwenty ==
    [][ initialize_default_coa =>
          \A c \in Companies :
            IF CompanyAccounts(accounts, c) = {}
            THEN /\ last' = 200
                 /\ Cardinality(CompanyAccounts(accounts', c)) = accounts_created
                 /\ accounts_created = 20
                 /\ {accounts'[i].account_code : i \in CompanyAccounts(accounts', c)}
                      = TemplateCodes
                 /\ Cardinality(TemplateCodes) = accounts_created
            ELSE /\ last' = 400
                 /\ accounts' = accounts ]_vars

\* C14: get_or_create_account is idempotent: two successive calls with the
\* same (company_id, account_code) return the same account id, and afterwards
\* the company has exactly one account with that code.
C14_GetOrCreateIdempotent ==
    call.status = "called twice"
        => /\ ~call.first.error /\ ~call.second.error
           /\ call.first.id = call.second.id
           /\ Cardinality({ i \in DOMAIN accounts :
                              /\ accounts[i].company_id = call.args.company_id
                              /\ accounts[i].account_code = call.args.account_code }) = 1

\* --------------------------------------------------------- properties: bank
NewIds(before, after) == DOMAIN after \ DOMAIN before

\* C15: a rejected bank operation has no effect: a transfer with
\* ltv_percentage outside 50..95 or for a pledge that is not Active, and a
\* redemption that pays less than bank_loan_amount or targets a bank pledge
\* that is not WITH_BANK, is refused; a refused operation creates no ledger
\* entry, no BankPledge or BankRedemption row, and changes no status.
C15_RejectedBankOperationNoEffect ==
    [][ /\ ( /\ \/ transfer_pledge_to_bank
                \/ redeem_pledge_from_bank
                \/ redeem_pledge_with_receipt
             /\ last' >= 400 )
           => UNCHANGED <<ledger, bank_pledges, bank_redemptions, pledges>>
        /\ \A id \in NewIds(bank_pledges, bank_pledges') :
             LET row == bank_pledges'[id]
             IN /\ 50 <= row.ltv_percentage /\ row.ltv_percentage <= 95
                /\ row.pledge_id \in DOMAIN pledges
                /\ pledges[row.pledge_id].status = "Active"
                /\ last' = 201
        /\ \A id \in NewIds(bank_redemptions, bank_redemptions') :
             LET row == bank_redemptions'[id]
             IN /\ row.bank_pledge_id \in DOMAIN bank_pledges
                /\ bank_pledges[row.bank_pledge_id].status = "WITH_BANK"
                /\ row.amount_paid_to_bank
                     >= bank_pledges[row.bank_pledge_id].bank_loan_amount
                /\ last' = 201 ]_vars

\* a transfer refused for its ltv_percentage: the accounts of a transfer
\* exist, a pledge is Active, and no receipt request can be the refused one
C15_Witness ==
    /\ last = 400
    /\ AccountByCode(accounts, 1, "2100") # 0
    /\ next_id.receipt > MaxReceipts
    /\ next_id.bank_pledge = 1
    /\ bank_pledges = <<>>
    /\ \E p \in DOMAIN pledges : pledges[p].status = "Active"

\* C16: a BankPledge is created WITH_BANK by a successful transfer, which
\* sets the pledge to WITH_BANK; its status then changes only to REDEEMED
\* (the pledge becomes Redeemed) or to CANCELLED (the pledge becomes Active
\* again), both from WITH_BANK; REDEEMED and CANCELLED are final.
C16_BankPledgeStatusMachine ==
    [][ /\ DOMAIN bank_pledges \subseteq DOMAIN bank_pledges'
        /\ \A id \in NewIds(bank_pledges, bank_pledges') :
             /\ bank_pledges'[id].status = "WITH_BANK"
             /\ last' = 201
             /\ pledges'[bank_pledges'[id].pledge_id].status = "WITH_BANK"
        /\ \A id \in DOMAIN bank_pledges :
             bank_pledges'[id].status # bank_pledges[id].status
               => /\ bank_pledges[id].status = "WITH_BANK"
                  /\ \/ /\ bank_pledges'[id].status = "REDEEMED"
                        /\ pledges'[bank_pledges[id].pledge_id].status = "Redeemed"
                        /\ NewIds(bank_redemptions, bank_redemptions') # {}
                     \/ /\ bank_pledges'[id].status = "CANCELLED"
                        /\ pledges'[bank_pledges[id].pledge_id].status = "Active" ]_vars

C16_Witness ==
    \E id \in DOMAIN bank_pledges :
        /\ bank_pledges[id].status = "REDEEMED"
        /\ pledges[bank_pledges[id].pledge_id].status = "Redeemed"
        /\ bank_redemptions # <<>>

BankRedemptionEntries(led, redemption_id) ==
    {e \in led : e.reference_type = "BankRedemption" /\ e.reference_id = redemption_id}

\* the entries of E, in id order, are (Debit, Credit) pairs of equal amount
Paired(E) ==
    LET s == ById(E)
    IN /\ Len(s) % 2 = 0
       /\ \A k \in 1..(Len(s) \div 2) :
            /\ s[2 * k - 1].transaction_type = "Debit"
            /\ s[2 * k].transaction_type = "Credit"
            /\ s[2 * k - 1].amount = s[2 * k].amount

\* C17: every successful bank transfer and every successful bank redemption
\* posts its ledger entries in Debit/Credit pairs of equal amount: the
\* entries of the event have equal Debit and Credit totals, and these are
\* the total_debits and total_credits the posting reports.
C17_BankPostingsBalanced ==
    /\ \A id \in DOMAIN bank_pledges :
         LET E == BankPledgeEntries(ledger, id)
             reported == create_bank_pledge_ledger_entries(
                             accounts, bank_pledges[id], bank_pledges[id].company_id)
         IN /\ E # {}
            /\ Paired(E)
            /\ Debits(E) = Credits(E)
            /\ reported.total_debits = Debits(E)
            /\ reported.total_credits = Credits(E)
    /\ \A id \in DOMAIN bank_redemptions :
         LET E == BankRedemptionEntries(ledger, id)
             row == bank_redemptions[id]
             reported == create_bank_redemption_ledger_entries(
                             accounts, row, bank_pledges[row.bank_pledge_id],
                             row.company_id)
         IN /\ E # {}
            /\ Paired(E)
            /\ Debits(E) = Credits(E)
            /\ reported.total_debits = Debits(E)
            /\ reported.total_credits = Credits(E)

\* a redemption with interest, charges, a loss and the restoration pair
C17_Witness ==
    \E id \in DOMAIN bank_redemptions :
        /\ bank_redemptions[id].interest_on_bank_loan > 0
        /\ bank_redemptions[id].bank_charges > 0
        /\ bank_redemptions[id].price_difference < 0
        /\ Cardinality(BankRedemptionEntries(ledger, id)) = 10

Opposite(transaction_type) == IF transaction_type = "Debit" THEN "Credit" ELSE "Debit"

\* new holds exactly one reversing entry per entry of originals
Reversed(originals, new) ==
    /\ Cardinality(new) = Cardinality(originals)
    /\ \A e \in originals :
         Cardinality({ r \in new : /\ r.account_id = e.account_id
                                   /\ r.amount = e.amount
                                   /\ r.company_id = e.company_id
                                   /\ r.transaction_type = Opposite(e.transaction_type) })
           = Cardinality({ o \in originals : /\ o.account_id = e.account_id
                                             /\ o.amount = e.amount
                                             /\ o.transaction_type = e.transaction_type })

NetZero(E) ==
    \A a \in {e.account_id : e \in E} :
        Debits({e \in E : e.account_id = a}) = Credits({e \in E : e.account_id = a})

\* C18: voiding a Posted receipt and cancelling a bank pledge keep every
\* original ledger entry unchanged and add exactly one reversing entry per
\* original, with the same account and amount and the opposite type, so that
\* per account the originals and the reversals sum to zero.
C18_ReversalsAdditive ==
    [][ /\ ledger \subseteq ledger'
        /\ \A r \in DOMAIN receipts :
             ( receipts[r].receipt_status = "Posted"
               /\ receipts'[r].receipt_status = "Void" )
               => LET originals == ReceiptEntries(ledger, r, receipts[r].company_id)
                  IN /\ originals # {}
                     /\ Reversed(originals, ledger' \ ledger)
                     /\ NetZero(originals \cup (ledger' \ ledger))
        /\ \A b \in DOMAIN bank_pledges :
             ( bank_pledges[b].status = "WITH_BANK"
               /\ bank_pledges'[b].status = "CANCELLED" )
               => LET originals == BankPledgeEntries(ledger, b)
                  IN /\ originals # {}
                     /\ Reversed(originals, ledger' \ ledger)
                     /\ NetZero(originals \cup (ledger' \ ledger)) ]_vars

\* a voided receipt and a cancelled bank pledge, each with its reversals
C18_Witness ==
    /\ \E r \in DOMAIN receipts :
         /\ receipts[r].receipt_status = "Void"
         /\ Cardinality(ReceiptEntries(ledger, r, receipts[r].company_id)) >= 4
    /\ \E b \in DOMAIN bank_pledges :
         /\ bank_pledges[b].status = "CANCELLED"
         /\ Cardinality(BankPledgeEntries(ledger, b)) = 4
         /\ Cardinality({e \in ledger : /\ e.reference_type = "BankPledgeReversal"
                                        /\ e.reference_id = b}) = 4

\* ------------------------------------------------- properties: receipts
\* C19: in every reachable state every stored receipt's receipt_amount equals
\* the sum of total_amount_paid over its items within the 0.01 tolerance,
\* also after update_receipt on a Draft receipt.
C19_ReceiptAmountIsItemTotal ==
    \A r \in DOMAIN receipts :
        Abs(receipts[r].receipt_amount
              - calculate_receipt_total(receipts[r].receipt_items)) <= Tolerance

\* C20: while a pledge is Active no operation decreases its
\* total_principal_received or its total_interest_received, for receipts with
\* non-negative paid amounts (a paid_discount above the paid_interest included).
C20_AccumulatorsMonotone ==
    [][ \A p \in DOMAIN pledges \cap DOMAIN pledges' :
          pledges[p].status = "Active"
            => /\ pledges'[p].total_principal_received
                    >= pledges[p].total_principal_received
               /\ pledges'[p].total_interest_received
                    >= pledges[p].total_interest_received ]_vars

\* ------------------------------------------------ properties: numbering
\* the pledges of a scheme created up to and including pledge i
Rank(pls, i) ==
    Cardinality({j \in DOMAIN pls : j <= i /\ pls[j].scheme_id = pls[i].scheme_id})

\* C21: with no pledge deleted, the first pledge of a scheme with prefix P
\* created in year Y has number P-Y-0001 and the one created after k
\* committed creations has P-Y-(k+1), zero-padded to four digits.
C21_PledgeNumbersSequential ==
    \A i \in DOMAIN pledges :
        pledges[i].pledge_no
          = Schemes[pledges[i].scheme_id].prefix
              \o <<str(Now.year), zfill(str(Rank(pledges, i)), 4)>>

\* C22: the number generate_receipt_no returns for any company differs from
\* the receipt_no of every receipt that exists.
C22_ReceiptNumberUnique ==
    \A c \in NumberedCompanies :
        \A r \in DOMAIN receipts :
            receipts[r].receipt_no # generate_receipt_no(receipts, c)

\* ------------------------------------------------ properties: deletion
\* C23: only Active pledges can be deleted: no step removes a pledge whose
\* status is not Active (Closed, Redeemed, Forfeited, WITH_BANK) together
\* with its items; delete_pledge is the only handler that removes pledges.
C23_OnlyActivePledgesDeleted ==
    [][ \A p \in DOMAIN pledges :
          pledges[p].status # "Active" => p \in DOMAIN pledges' ]_vars

\* ------------------------------------------ properties: receipt lifecycle
\* C24: receipt operations are guarded by the receipt's status (update,
\* delete and post need Draft, void needs Posted or Adjusted), so that a
\* receipt that is Void is never changed or deleted by any operation.
C24_ReceiptStatusGuards ==
    [][ \A r \in DOMAIN receipts :
          receipts[r].receipt_status = "Void"
            => r \in DOMAIN receipts' /\ receipts'[r] = receipts[r] ]_vars

\* ------------------------------------------------ properties: races
\* C26: under any interleaving of create_pledge requests no two stored
\* pledges have the same pledge_no, and a request that ends holding a number
\* a stored pledge already has stores nothing and fails.
C26_PledgeNumbersUnique ==
    [][ /\ \A i, j \in DOMAIN pledges' :
              i # j => pledges'[i].pledge_no # pledges'[j].pledge_no
        /\ \A n \in DOMAIN sessions \ DOMAIN sessions' :
              /\ sessions[n].handler = "create_pledge"
              /\ \E i \in DOMAIN pledges :
                     pledges[i].pledge_no = sessions[n].pledge_no
              => pledges' = pledges /\ last' = 400 ]_vars

\* two requests read the same latest number, one stored its pledge and the
\* other failed: one pledge, sequential creations never fail after one
C26_Witness ==
    /\ Cardinality(DOMAIN pledges) = 1
    /\ sessions = <<>>
    /\ last = 400

\* what the items of a receipt add to a pledge's accumulators
PaidPrincipal(receipt, p) ==
    SumSeq([i \in DOMAIN receipt.receipt_items |->
              IF receipt.receipt_items[i].pledge_id = p
              THEN receipt.receipt_items[i].paid_principal ELSE 0])

PaidInterest(receipt, p) ==
    SumSeq([i \in DOMAIN receipt.receipt_items |->
              IF receipt.receipt_items[i].pledge_id = p
              THEN receipt.receipt_items[i].paid_interest
                     - receipt.receipt_items[i].paid_discount
              ELSE 0])

\* C25: no create_receipt request that commits loses an update: the step
\* that stores a receipt leaves every pledge's total_principal_received and
\* total_interest_received at the committed value plus the receipt's
\* contribution, however the requests overlap.
C25_NoLostUpdate ==
    [][ \A r \in DOMAIN receipts' \ DOMAIN receipts :
          \A p \in DOMAIN pledges :
              /\ p \in DOMAIN pledges'
              /\ pledges'[p].total_principal_received
                    = pledges[p].total_principal_received
                        + PaidPrincipal(receipts'[r], p)
              /\ pledges'[p].total_interest_received
                    = pledges[p].total_interest_received
                        + PaidInterest(receipts'[r], p) ]_vars

\* the ledger entries cancel_bank_pledge adds for a bank pledge
BankPledgeReversalEntries(led, bank_pledge_id) ==
    {e \in led : /\ e.reference_type = "BankPledgeReversal"
                 /\ e.reference_id = bank_pledge_id}

\* the BankRedemption rows of a bank pledge
Redemptions(bank_pledge_id) ==
    {r \in DOMAIN bank_redemptions :
        bank_redemptions[r].bank_pledge_id = bank_pledge_id}

\* C27: of the redeem, redeem-with-receipt and cancel requests on one
\* BankPledge at most one takes effect, however they overlap: the BankPledge
\* has at most one BankRedemption row, and it never has both a redemption
\* and the reversal entries of a cancellation.
C27_AtMostOneTakesEffect ==
    \A b \in DOMAIN bank_pledges :
        /\ Cardinality(Redemptions(b)) <= 1
        /\ ~ ( /\ Redemptions(b) # {}
               /\ BankPledgeReversalEntries(ledger, b) # {} )

\* ------------------------------------------ properties: pledges at a bank
\* the BankPledge rows of a pledge that are WITH_BANK
WithBank(p) ==
    {b \in DOMAIN bank_pledges : /\ bank_pledges[b].pledge_id = p
                                 /\ bank_pledges[b].status = "WITH_BANK"}

\* C28: in every reachable state a pledge has status WITH_BANK if and only
\* if exactly one BankPledge with status WITH_BANK exists for it.
C28_WithBankIffBankPledge ==
    \A p \in DOMAIN pledges :
        pledges[p].status = "WITH_BANK" <=> Cardinality(WithBank(p)) = 1

\* what the receipt-funded redemptions have drawn from a receipt: the
\* amount paid to the bank less the additional business payment
Drawn(r) ==
    SumSeq([i \in DOMAIN bank_redemptions |->
              IF bank_redemptions[i].remarks.receipt_id = r
              THEN bank_redemptions[i].amount_paid_to_bank
                     - bank_redemptions[i].remarks.additional_business_payment
              ELSE 0])

\* C29: the total drawn from one receipt across all receipt-funded bank
\* redemptions never exceeds the receipt's receipt_amount.
C29_ReceiptNotOverdrawn ==
    \A r \in DOMAIN receipts : Drawn(r) <= receipts[r].receipt_amount

\* ------------------------------------ properties: interest over time
\* C30: with the other arguments fixed the outstanding interest never
\* decreases as the calculation date moves later: the result for a date is
\* at most the result for the day after (and so for every later date),
\* across the day-15/16 boundary and each month rollover.
C30_InterestMonotone ==
    call.status = "returned twice"
      => /\ ~ call.result.error
         /\ ~ call.later_result.error
         /\ call.result.value <= call.later_result.value

Next ==
    \/ initialize_default_coa
    \/ create_customer
    \/ create_pledge
    \/ update_pledge
    \/ close_pledge
    \/ delete_pledge
    \/ create_receipt
    \/ update_receipt
    \/ post_receipt
    \/ void_receipt
    \/ delete_receipt

Spec == Init /\ [][Next]_vars

\* the bank operations on a shop with pledges and draft receipts
NextBank ==
    \/ create_pledge_bank
    \/ create_receipt
    \/ transfer_pledge_to_bank
    \/ redeem_pledge_from_bank
    \/ redeem_pledge_with_receipt
    \/ cancel_bank_pledge

SpecBank == InitBank /\ [][NextBank]_vars

\* the two additive reversals: a receipt voided, a bank transfer cancelled
NextReversal ==
    \/ create_pledge_bank
    \/ create_receipt
    \/ post_receipt
    \/ void_receipt
    \/ transfer_pledge_to_bank
    \/ cancel_bank_pledge

SpecReversal == InitBank /\ [][NextReversal]_vars

\* the interest calculator applied to every argument tuple
NextInterest == interest_outstanding

SpecInterest == InitInterest /\ [][NextInterest]_vars

\* get_or_create_account called twice with the same arguments
NextAccounts ==
    \/ get_or_create_account_first
    \/ get_or_create_account_second

SpecAccounts == InitAccounts /\ [][NextAccounts]_vars

\* document numbering: sequential creations in two schemes and two companies
NextNumbers ==
    \/ create_pledge_numbered
    \/ create_receipt_numbered
    \/ delete_receipt_numbered

SpecNumbers == InitNumbers /\ [][NextNumbers]_vars

\* the receipt lifecycle and the receipt-funded bank redemption
NextLinked ==
    \/ create_pledge_bank
    \/ create_receipt_linked
    \/ update_receipt
    \/ post_receipt
    \/ void_receipt
    \/ delete_receipt
    \/ transfer_pledge_to_bank
    \/ redeem_pledge_with_receipt

SpecLinked == InitLinked /\ [][NextLinked]_vars

\* create_pledge requests that overlap
NextConcurrentPledges ==
    \/ create_pledge_begin
    \/ create_pledge_end

SpecConcurrentPledges == InitNumbers /\ [][NextConcurrentPledges]_vars

\* create_receipt requests that overlap, next to deletions of Draft receipts
NextConcurrentReceipts ==
    \/ create_pledge_bank
    \/ create_receipt_begin
    \/ create_receipt_end
    \/ delete_receipt_numbered

SpecConcurrentReceipts == InitNumbers /\ [][NextConcurrentReceipts]_vars

\* redemptions and cancellations of a bank pledge that overlap
NextConcurrentBank ==
    \/ create_pledge_bank
    \/ create_receipt_linked
    \/ transfer_pledge_to_bank
    \/ redeem_pledge_from_bank_begin
    \/ redeem_pledge_from_bank_end
    \/ redeem_pledge_with_receipt_begin
    \/ redeem_pledge_with_receipt_end
    \/ cancel_bank_pledge_begin
    \/ cancel_bank_pledge_end

SpecConcurrentBank == InitLinked /\ [][NextConcurrentBank]_vars

\* the interest calculator on a calculation date and on the day after
NextInterestDates ==
    \/ interest_outstanding
    \/ interest_outstanding_on_next_date

SpecInterestDates == InitInterest /\ [][NextInterestDates]_vars

====
